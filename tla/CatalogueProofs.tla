-------------------------- MODULE CatalogueProofs --------------------------
(***************************************************************************)
(* Theorems about Catalogue, for every number of products, files, users,   *)
(* reviews and requests, and about the listings of Queries, for every      *)
(* number of rows, moments, page sizes and changes.                        *)
(***************************************************************************)
EXTENDS Catalogue, Queries, SetSums, SequenceTheorems, TLAPS

-----------------------------------------------------------------------------
(* Rows *)

\* The UPDATE of a save leaves a row of the table behind: the columns it
\* writes are the entity's, the others the row's.
LEMMA MergeProduct ==
  ASSUME NEW e \in ProductRow, NEW row \in ProductRow, NEW cols
  PROVE  /\ Merge(e, row, cols) \in ProductRow
         /\ DOMAIN row = Columns.product
         /\ \A c \in Columns.product :
              Merge(e, row, cols)[c] = IF c \in cols THEN e[c] ELSE row[c]
<1>1. DOMAIN row = Columns.product
  BY DEF ProductRow, Columns
<1>2. Merge(e, row, cols) = [stock  |-> IF "stock" \in cols THEN e.stock ELSE row.stock,
                             active |-> IF "active" \in cols THEN e.active ELSE row.active,
                             main   |-> IF "main" \in cols THEN e.main ELSE row.main,
                             gone   |-> IF "gone" \in cols THEN e.gone ELSE row.gone]
  BY <1>1 DEF Merge, Columns
<1>3. Merge(e, row, cols) \in ProductRow
  BY <1>2 DEF ProductRow
<1> QED
  BY <1>1, <1>3 DEF Merge

LEMMA MergeFile ==
  ASSUME NEW e \in FileRow, NEW row \in FileRow, NEW cols
  PROVE  /\ Merge(e, row, cols) \in FileRow
         /\ DOMAIN row = Columns.file
         /\ \A c \in Columns.file :
              Merge(e, row, cols)[c] = IF c \in cols THEN e[c] ELSE row[c]
<1>1. DOMAIN row = Columns.file
  BY DEF FileRow, Columns
<1>2. Merge(e, row, cols) = [owner  |-> IF "owner" \in cols THEN e.owner ELSE row.owner,
                             status |-> IF "status" \in cols THEN e.status ELSE row.status,
                             entity |-> IF "entity" \in cols THEN e.entity ELSE row.entity]
  BY <1>1 DEF Merge, Columns
<1>3. Merge(e, row, cols) \in FileRow
  BY <1>2 DEF FileRow
<1> QED
  BY <1>1, <1>3 DEF Merge

LEMMA MergeUser ==
  ASSUME NEW e \in UserRow, NEW row \in UserRow, NEW cols
  PROVE  /\ Merge(e, row, cols) \in UserRow
         /\ DOMAIN row = Columns.user
         /\ \A c \in Columns.user :
              Merge(e, row, cols)[c] = IF c \in cols THEN e[c] ELSE row[c]
<1>1. DOMAIN row = Columns.user
  BY DEF UserRow, Columns
<1>2. Merge(e, row, cols) = [name    |-> IF "name" \in cols THEN e.name ELSE row.name,
                             role    |-> IF "role" \in cols THEN e.role ELSE row.role,
                             avatar  |-> IF "avatar" \in cols THEN e.avatar ELSE row.avatar,
                             deleted |-> IF "deleted" \in cols THEN e.deleted ELSE row.deleted]
  BY <1>1 DEF Merge, Columns
<1>3. Merge(e, row, cols) \in UserRow
  BY <1>2 DEF UserRow
<1> QED
  BY <1>1, <1>3 DEF Merge

\* What a body names, by its operation.
LEMMA BodyFacts ==
  ASSUME KTypeOK, NEW r \in Requests
  PROVE  /\ req[r].op \in ProductOps \cup UserOps \cup ReviewOps
         /\ req[r].op \in ProductOps \cup ReviewOps => P(r) \in Products
         /\ req[r].op \in UserOps \cup ReviewOps => U(r) \in Users
         /\ req[r].op \in (ProductOps \ {"patch"}) \cup {"complete", "avatar"} => F(r) \in Files
         /\ req[r].op = "patch" => req[r].set \in {"stock", "active"}
         /\ req[r].op \in ReviewOps => req[r].rating \in Ratings
<1>1. req[r] \in Bodies
  BY DEF KTypeOK
<1> QED
  BY <1>1, CatalogueAssumption DEF P, F, U, ProductOps, UserOps, ReviewOps

-----------------------------------------------------------------------------
(* What a step of one request does to the others *)

\* Rows keep their types and are never removed, and bytes stay in the bucket.
TablesGrow ==
  /\ product' \in [Products -> ProductRow \cup {None}]
  /\ file' \in [Files -> FileRow \cup {None}]
  /\ user' \in [Users -> UserRow]
  /\ \A p \in Products : product[p] # None => product'[p] # None
  /\ \A f \in Files : file[f] # None => file'[f] # None
  /\ objects \subseteq objects'

\* The history variable never forgets.
LEMMA StaleGrows ==
  ASSUME KIInv, Track
  PROVE  /\ DOMAIN stale' = Requests
         /\ \A s \in Requests : stale[s] \subseteq stale'[s]
         /\ \A s \in Requests : pc'[s] # pc[s] \/ pc[s] = "new" => stale'[s] = stale[s]
         /\ Overtaken => Overtaken'
<1>1. /\ DOMAIN stale' = Requests
      /\ \A s \in Requests : stale[s] \subseteq stale'[s]
      /\ \A s \in Requests : pc'[s] # pc[s] \/ pc[s] = "new" => stale'[s] = stale[s]
  BY DEF Track
<1>2. Overtaken => Overtaken'
  BY <1>1 DEF Overtaken
<1> QED
  BY <1>1, <1>2

\* A column of its rows that changes while a request waits is stale for it.
LEMMA ChangesAreTracked ==
  ASSUME KIInv, Track, TablesGrow, UNCHANGED req,
         NEW s \in Requests, pc'[s] = pc[s], pc[s] # "new"
  PROVE  /\ OnProduct(s) /\ product[P(s)] # None =>
              \A c \in Columns.product \ stale'[s] : product'[P(s)][c] = product[P(s)][c]
         /\ req[s].op \in UserOps =>
              \A c \in Columns.user \ stale'[s] : user'[U(s)][c] = user[U(s)][c]
         /\ req[s].op \in (ProductOps \ {"patch"}) \cup {"complete", "avatar"} /\ file[F(s)] # None =>
              \A c \in Columns.file \ stale'[s] : file'[F(s)][c] = file[F(s)][c]
<1>0. KTypeOK
  BY DEF KIInv
<1>1. stale'[s] = stale[s] \cup Moved(RowsOf(s).main, RowsOf(s)'.main)
                           \cup Moved(RowsOf(s).file, RowsOf(s)'.file)
  BY DEF Track
<1>2. ASSUME OnProduct(s), product[P(s)] # None
      PROVE  \A c \in Columns.product \ stale'[s] : product'[P(s)][c] = product[P(s)][c]
  <2>1. P(s) \in Products
    BY <1>0, <1>2, BodyFacts DEF OnProduct
  <2>2. product[P(s)] \in ProductRow /\ product'[P(s)] # None
    BY <1>0, <1>2, <2>1 DEF KTypeOK, TablesGrow
  <2>3. DOMAIN product[P(s)] = Columns.product
    BY <2>2 DEF ProductRow, Columns
  <2>4. RowsOf(s).main = product[P(s)] /\ RowsOf(s)'.main = product'[P(s)]
    BY <1>2 DEF RowsOf, MainRow, OnProduct, ProductOps, ReviewOps, P
  <2> QED
    BY <1>1, <1>2, <2>2, <2>3, <2>4 DEF Moved
<1>3. ASSUME req[s].op \in UserOps
      PROVE  \A c \in Columns.user \ stale'[s] : user'[U(s)][c] = user[U(s)][c]
  <2>1. U(s) \in Users
    BY <1>0, <1>3, BodyFacts
  <2>2. user[U(s)] \in UserRow /\ user'[U(s)] \in UserRow
    BY <1>0, <2>1 DEF KTypeOK, TablesGrow
  <2>3. DOMAIN user[U(s)] = Columns.user
    BY <2>2 DEF UserRow, Columns
  <2>4. RowsOf(s).main = user[U(s)] /\ RowsOf(s)'.main = user'[U(s)]
    BY <1>3 DEF RowsOf, MainRow, OnProduct, ProductOps, ReviewOps, UserOps, U
  <2>5. None \notin UserRow
    BY CatalogueAssumption
  <2> QED
    BY <1>1, <2>2, <2>3, <2>4, <2>5 DEF Moved
<1>4. ASSUME req[s].op \in (ProductOps \ {"patch"}) \cup {"complete", "avatar"}, file[F(s)] # None
      PROVE  \A c \in Columns.file \ stale'[s] : file'[F(s)][c] = file[F(s)][c]
  <2>1. F(s) \in Files
    BY <1>0, <1>4, BodyFacts
  <2>2. file[F(s)] \in FileRow /\ file'[F(s)] # None
    BY <1>0, <1>4, <2>1 DEF KTypeOK, TablesGrow
  <2>3. DOMAIN file[F(s)] = Columns.file
    BY <2>2 DEF FileRow, Columns
  <2>4. RowsOf(s).file = file[F(s)] /\ RowsOf(s)'.file = file'[F(s)]
    BY <1>4 DEF RowsOf, ProductOps, ReviewOps, F
  <2> QED
    BY <1>1, <1>4, <2>2, <2>3, <2>4 DEF Moved
<1> QED
  BY <1>2, <1>3, <1>4

\* A request that does not move keeps what it can rely on.
LEMMA OthersKeep ==
  ASSUME KIInv, Track, TablesGrow, UNCHANGED req, NEW s \in Requests,
         pc'[s] = pc[s], mem'[s] = mem[s], memFile'[s] = memFile[s]
  PROVE  Placed(s)' /\ Fresh(s)' /\ CopyUploaded(s)'
<1>0. /\ KTypeOK /\ Placed(s) /\ Fresh(s) /\ CopyUploaded(s)
      /\ P(s)' = P(s) /\ F(s)' = F(s) /\ U(s)' = U(s) /\ OnProduct(s)' = OnProduct(s)
      /\ Named(s)' = Named(s) /\ NamedFile(s)' = NamedFile(s) /\ Begun(s)' = Begun(s)
      /\ req'[s] = req[s]
  BY DEF KIInv, P, F, U, OnProduct, Named, NamedFile, Begun
<1>1. stale[s] \subseteq stale'[s]
  BY StaleGrows
<1>2. Placed(s)'
  <2>1. Begun(s) /\ OnProduct(s) => product'[P(s)] # None
    BY <1>0, BodyFacts DEF Placed, TablesGrow, OnProduct
  <2>2. pc[s] \in WithFile => file'[F(s)] # None
    BY <1>0, BodyFacts DEF Placed, TablesGrow, WithFile, SavingFile, ProductOps
  <2> QED
    BY <1>0, <2>1, <2>2 DEF Placed
<1>3. CopyUploaded(s)'
  BY <1>0 DEF CopyUploaded, TablesGrow
<1>4. Fresh(s)'
  <2>1. CASE ~Begun(s)
    BY <1>0, <2>1 DEF Fresh, Begun, Saving, SavingFile, WithFile, Done
  <2>2. CASE Begun(s)
    <3>0. pc[s] # "new"
      BY <2>2 DEF Begun
    <3>1. pc[s] \in Saving /\ OnProduct(s) =>
            \A c \in Columns.product \ (Named(s) \cup stale'[s]) : mem[s][c] = product'[P(s)][c]
      BY <1>0, <1>1, <2>2, <3>0, ChangesAreTracked DEF Fresh, Placed
    <3>2. req[s].op \in {"avatar", "profile"} =>
            \A c \in Columns.user \ (Named(s) \cup stale'[s]) : mem[s][c] = user'[U(s)][c]
      BY <1>0, <1>1, <2>2, <3>0, ChangesAreTracked DEF Fresh, UserOps
    <3>3. pc[s] \in WithFile =>
            \A c \in Columns.file \ (NamedFile(s) \cup stale'[s]) : memFile[s][c] = file'[F(s)][c]
      BY <1>0, <1>1, <3>0, ChangesAreTracked
         DEF Fresh, Placed, WithFile, SavingFile, ProductOps
    <3>4. ASSUME "entity" \notin stale'[s]
          PROVE  /\ req[s].op = "setMain" /\ pc[s] \in {"reload"} \cup Saving =>
                      file'[F(s)] # None /\ file'[F(s)].entity = P(s)
                 /\ req[s].op = "addImage" /\ pc[s] \in SavingFile => file'[F(s)].entity = None
                 /\ req[s].op = "removeImage" /\ pc[s] \in SavingFile => file'[F(s)].entity = P(s)
      <4>1. "entity" \in Columns.file \ stale'[s] /\ "entity" \notin stale[s]
        BY <1>1, <3>4 DEF Columns
      <4>2. req[s].op \in (ProductOps \ {"patch"}) /\ file[F(s)] # None
              => file'[F(s)].entity = file[F(s)].entity /\ file'[F(s)] # None
        BY <1>0, <3>0, <4>1, BodyFacts, ChangesAreTracked DEF TablesGrow
      <4> QED
        BY <1>0, <4>1, <4>2 DEF Fresh, Placed, ProductOps, WithFile
    <3> QED
      BY <1>0, <3>1, <3>2, <3>3, <3>4 DEF Fresh
  <2> QED
    BY <2>1, <2>2
<1> QED
  BY <1>2, <1>3, <1>4

\* What the request that moves keeps: its body, and its stale columns.
LEMMA MoverKeeps ==
  ASSUME KIInv, Track, UNCHANGED req, NEW r \in Requests, NEW label, label # pc[r],
         Goto(r, label)
  PROVE  /\ P(r)' = P(r) /\ F(r)' = F(r) /\ U(r)' = U(r) /\ OnProduct(r)' = OnProduct(r)
         /\ Named(r)' = Named(r) /\ NamedFile(r)' = NamedFile(r) /\ req'[r] = req[r]
         /\ pc'[r] = label /\ stale'[r] = stale[r]
         /\ \A s \in Requests \ {r} : pc'[s] = pc[s]
<1>1. pc'[r] = label /\ \A s \in Requests \ {r} : pc'[s] = pc[s]
  BY DEF KIInv, KTypeOK, Goto
<1> QED
  BY <1>1, StaleGrows DEF P, F, U, OnProduct, Named, NamedFile

\* A removal at work stays so while its request does not answer.
LEMMA RemovalStays ==
  ASSUME KIInv, UNCHANGED req, NEW r \in Requests,
         \A s \in Requests \ {r} : pc'[s] = pc[s],
         pc[r] \in {"unlink", "failed"} => pc'[r] \in {"unlink", "failed"}
  PROVE  \A p \in Products, f \in Files : RemovalUnderWay(p, f) => RemovalUnderWay(p, f)'
BY DEF RemovalUnderWay, P, F

\* The invariant from its parts, when one request moves.
LEMMA MoveKeeps ==
  ASSUME KIInv, Track, TablesGrow, UNCHANGED req, NEW r \in Requests,
         \A s \in Requests \ {r} :
           pc'[s] = pc[s] /\ mem'[s] = mem[s] /\ memFile'[s] = memFile[s],
         KTypeOK', RowsUploaded', ReviewIds', MainsLinked',
         Placed(r)', Fresh(r)', CopyUploaded(r)'
  PROVE  KIInv'
<1>1. ASSUME NEW s \in Requests
      PROVE  Placed(s)' /\ Fresh(s)' /\ CopyUploaded(s)'
  <2>1. CASE s = r
    BY <2>1
  <2>2. CASE s # r
    BY <2>2, OthersKeep
  <2> QED
    BY <2>1, <2>2
<1> QED
  BY <1>1 DEF KIInv

\* A step that leaves the tables alone.
LEMMA LocalStep ==
  ASSUME KIInv, Track, UNCHANGED <<tables, req>>,
         NEW r \in Requests, NEW label \in KLabels, label # pc[r], Goto(r, label),
         mem' \in [Requests -> ProductRow \cup UserRow \cup AnyReview \cup {None}],
         memFile' \in [Requests -> FileRow \cup {None}],
         DOMAIN dirty' = Requests,
         \A s \in Requests \ {r} : mem'[s] = mem[s] /\ memFile'[s] = memFile[s],
         pc[r] \in {"unlink", "failed"} => label = "failed",
         label \in WithReview =>
           \/ pc[r] \in WithReview /\ mem'[r] = mem[r]
           \/ \E v \in reviews : mem'[r].id = v.id /\ v.user = U(r) /\ v.product = P(r),
         Placed(r)', Fresh(r)', CopyUploaded(r)'
  PROVE  KIInv'
<1>0. KTypeOK /\ RowsUploaded /\ ReviewIds /\ MainsLinked
  BY DEF KIInv
<1>1. /\ P(r)' = P(r) /\ U(r)' = U(r) /\ req'[r] = req[r]
      /\ pc'[r] = label /\ \A s \in Requests \ {r} : pc'[s] = pc[s]
  BY MoverKeeps
<1>2. TablesGrow
  BY <1>0 DEF KTypeOK, TablesGrow, tables
<1>3. KTypeOK'
  BY <1>0, StaleGrows DEF KTypeOK, Goto, tables
<1>4. RowsUploaded'
  BY <1>0 DEF RowsUploaded, Downloadable, tables
<1>5. ReviewIds'
  <2>1. /\ OneReviewPerUser'
        /\ \A v \in reviews' : v.id <= lastId'
        /\ \A v, w \in reviews' : v.id = w.id => v = w
    BY <1>0 DEF ReviewIds, OneReviewPerUser, tables
  <2>2. \A s \in Requests : P(s)' = P(s) /\ U(s)' = U(s)
    BY DEF P, U
  <2>3. \A s \in Requests \ {r} : mem'[s] = mem[s] /\ pc'[s] = pc[s]
    BY <1>1
  <2>4. reviews' = reviews /\ lastId' = lastId
    BY DEF tables
  <2>5. ASSUME pc'[r] \in WithReview
        PROVE  /\ mem'[r].id <= lastId
               /\ \A v \in reviews : v.id = mem'[r].id => v.user = U(r) /\ v.product = P(r)
               /\ \A s \in Requests : pc[s] \in WithReview /\ mem[s].id = mem'[r].id =>
                    U(s) = U(r) /\ P(s) = P(r)
    <3>1. CASE pc[r] \in WithReview /\ mem'[r] = mem[r]
      BY <1>0, <3>1 DEF ReviewIds
    <3>2. CASE \E v \in reviews : mem'[r].id = v.id /\ v.user = U(r) /\ v.product = P(r)
      <4>1. PICK v \in reviews : mem'[r].id = v.id /\ v.user = U(r) /\ v.product = P(r)
        BY <3>2
      <4> QED
        BY <1>0, <4>1 DEF ReviewIds
    <3> QED
      BY <1>1, <2>5, <3>1, <3>2
  <2>6. ASSUME NEW q \in Requests, pc'[q] \in WithReview
        PROVE  /\ mem'[q].id <= lastId'
               /\ \A v \in reviews' : v.id = mem'[q].id => v.user = U(q)' /\ v.product = P(q)'
               /\ \A s \in Requests : pc'[s] \in WithReview /\ mem'[s].id = mem'[q].id =>
                    U(s)' = U(q)' /\ P(s)' = P(q)'
    <3>1. CASE q = r
      BY <2>2, <2>3, <2>4, <2>5, <2>6, <3>1
    <3>2. CASE q # r
      <4>1. /\ mem[q].id <= lastId
            /\ \A v \in reviews : v.id = mem[q].id => v.user = U(q) /\ v.product = P(q)
            /\ \A s \in Requests : pc[s] \in WithReview /\ mem[s].id = mem[q].id =>
                 U(s) = U(q) /\ P(s) = P(q)
        BY <1>0, <2>3, <2>6, <3>2 DEF ReviewIds
      <4> QED
        BY <2>2, <2>3, <2>4, <2>5, <2>6, <3>2, <4>1
    <3> QED
      BY <3>1, <3>2
  <2> QED
    BY <2>1, <2>6 DEF ReviewIds
<1>6. MainsLinked'
  <2>1. \A p \in Products, f \in Files : RemovalUnderWay(p, f) => RemovalUnderWay(p, f)'
    BY <1>1, RemovalStays
  <2> QED
    BY <1>0, <2>1, StaleGrows DEF MainsLinked, tables
<1> QED
  BY <1>1, <1>2, <1>3, <1>4, <1>5, <1>6, MoveKeeps

\* A request that is over holds nothing.
LEMMA NothingHeld ==
  ASSUME NEW r \in Requests, pc'[r] \in Done
  PROVE  Placed(r)' /\ Fresh(r)' /\ CopyUploaded(r)'
<1>1. ~Begun(r)' /\ pc'[r] \notin Saving \cup WithFile \cup WithReview
                    \cup {"file", "reload", "unlink", "find", "insertReview"}
  BY DEF Begun, Done, Saving, WithFile, SavingFile, WithReview
<1> QED
  BY <1>1 DEF Placed, Fresh, CopyUploaded, WithFile

\* A request that ends without a write.
LEMMA EndStep ==
  ASSUME KIInv, Track, UNCHANGED req, NEW r \in Requests, NEW label \in Done, label # pc[r],
         pc[r] \in {"unlink", "failed"} => label = "failed", Go(r, label)
  PROVE  KIInv'
<1>1. Placed(r)' /\ Fresh(r)' /\ CopyUploaded(r)'
  BY MoverKeeps, NothingHeld DEF Go
<1>2. label \in KLabels /\ label \notin WithReview
  BY DEF KLabels, WithReview, Done
<1>3. KTypeOK
  BY DEF KIInv
<1> QED
  BY <1>1, <1>2, <1>3, LocalStep DEF Go, locals, KTypeOK

-----------------------------------------------------------------------------
(* Loading *)

\* findProductOrFail.
LEMMA FindProductKeeps ==
  ASSUME KIInv, Track, UNCHANGED req, NEW r \in Requests, FindProduct(r)
  PROVE  KIInv'
<1>0. KTypeOK /\ RowsUploaded /\ pc[r] = "new"
  BY DEF KIInv, FindProduct
<1>1. CASE ~Live(P(r))
  BY <1>0, <1>1, EndStep DEF FindProduct, Done
<1>2. CASE Live(P(r)) /\ req[r].op = "patch" /\ Keep(r, Patched(r), "diff")
  <2>1. /\ P(r)' = P(r) /\ OnProduct(r)' = OnProduct(r) /\ Named(r)' = Named(r)
        /\ req'[r] = req[r] /\ pc'[r] = "diff" /\ stale'[r] = stale[r]
    BY <1>0, <1>2, MoverKeeps DEF Keep
  <2>2. P(r) \in Products /\ product[P(r)] \in ProductRow /\ req[r].set \in {"stock", "active"}
    BY <1>0, <1>2, BodyFacts DEF Live, KTypeOK, ProductOps
  <2>3. Patched(r) \in ProductRow
    <3>1. MaxStock \in 0..MaxStock
      BY CatalogueAssumption
    <3>2. [product[P(r)] EXCEPT !.stock = MaxStock] \in ProductRow
      BY <2>2, <3>1 DEF ProductRow
    <3>3. [product[P(r)] EXCEPT !.active = FALSE] \in ProductRow
      BY <2>2 DEF ProductRow
    <3> QED
      BY <3>2, <3>3 DEF Patched
  <2>4. Named(r) = {req[r].set} /\ OnProduct(r) /\ product' = product /\ objects' = objects
    BY <1>2 DEF Named, OnProduct, ProductOps, Keep, tables
  <2>5. \A c \in Columns.product \ Named(r) : Patched(r)[c] = product[P(r)][c]
    BY <2>2, <2>4 DEF Columns, Patched, ProductRow
  <2>6. mem'[r] = Patched(r)
    BY <1>0, <1>2 DEF Keep, KTypeOK
  <2>7. Placed(r)'
    BY <1>2, <2>1, <2>2, <2>3, <2>4, <2>6, CatalogueAssumption
       DEF Placed, Saving, SavingFile, WithFile, WithReview, Live
  <2>8. Fresh(r)'
    BY <1>2, <2>1, <2>4, <2>5, <2>6 DEF Fresh, Saving, SavingFile, WithFile
  <2>9. CopyUploaded(r)'
    <3>1. Patched(r).main = product[P(r)].main
      BY <2>2 DEF Patched, ProductRow
    <3>2. product[P(r)].main \in objects \cup {None}
      BY <1>0, <1>2, <2>2 DEF RowsUploaded, Live
    <3> QED
      BY <1>2, <2>1, <2>4, <2>6, <3>1, <3>2 DEF CopyUploaded, Saving, SavingFile, WithFile
  <2>10. "diff" \in KLabels /\ "diff" \notin WithReview
    BY DEF KLabels, Saving, WithReview
  <2> QED
    BY <1>0, <1>2, <2>3, <2>4, <2>6, <2>7, <2>8, <2>9, <2>10, LocalStep DEF Keep, KTypeOK
<1>3. CASE Live(P(r)) /\ req[r].op \in ProductOps \ {"patch"} /\ Go(r, "file")
  <2>1. /\ P(r)' = P(r) /\ OnProduct(r)' = OnProduct(r)
        /\ req'[r] = req[r] /\ pc'[r] = "file" /\ product' = product
    BY <1>0, <1>3, MoverKeeps DEF Go, tables
  <2>2. Placed(r)' /\ Fresh(r)' /\ CopyUploaded(r)'
    BY <1>3, <2>1 DEF Placed, Fresh, CopyUploaded, Saving, SavingFile, WithFile, WithReview,
                      Live, ProductOps
  <2>3. "file" \in KLabels /\ "file" \notin WithReview
    BY DEF KLabels, WithReview
  <2> QED
    BY <1>0, <1>3, <2>2, <2>3, LocalStep DEF Go, locals, KTypeOK
<1>4. CASE Live(P(r)) /\ req[r].op \in ReviewOps /\ Go(r, "find")
  <2>1. OnProduct(r)' = OnProduct(r) /\ req'[r] = req[r] /\ pc'[r] = "find" /\ ~OnProduct(r)
    BY <1>0, <1>4, MoverKeeps DEF Go, OnProduct, ProductOps, ReviewOps
  <2>2. Placed(r)' /\ Fresh(r)' /\ CopyUploaded(r)'
    BY <1>4, <2>1 DEF Placed, Fresh, CopyUploaded, Saving, SavingFile, WithFile, WithReview,
                      ReviewOps
  <2>3. "find" \in KLabels /\ "find" \notin WithReview
    BY DEF KLabels, WithReview
  <2> QED
    BY <1>0, <1>4, <2>2, <2>3, LocalStep DEF Go, locals, KTypeOK
<1> QED
  BY <1>1, <1>2, <1>3, <1>4 DEF FindProduct

\* findUserOrFail.
LEMMA FindUserKeeps ==
  ASSUME KIInv, Track, UNCHANGED req, NEW r \in Requests, FindUser(r)
  PROVE  KIInv'
<1>0. KTypeOK /\ RowsUploaded /\ pc[r] = "new" /\ req[r].op \in {"avatar", "profile"}
  BY DEF KIInv, FindUser
<1>1. U(r) \in Users /\ user[U(r)] \in UserRow /\ user[U(r)].avatar \in objects \cup {None}
  BY <1>0, BodyFacts DEF KTypeOK, RowsUploaded, UserOps
<1>2. ~OnProduct(r)
  BY <1>0 DEF OnProduct, ProductOps
<1>3. CASE Go(r, "failed")
  BY <1>0, <1>3, EndStep DEF Done
<1>4. CASE req[r].op = "avatar" /\ Keep(r, user[U(r)], "file")
  <2>1. /\ U(r)' = U(r) /\ OnProduct(r)' = OnProduct(r) /\ Named(r)' = Named(r)
        /\ req'[r] = req[r] /\ pc'[r] = "file" /\ stale'[r] = stale[r]
        /\ user' = user /\ objects' = objects
    BY <1>0, <1>4, MoverKeeps DEF Keep, tables
  <2>2. mem'[r] = user[U(r)]
    BY <1>0, <1>4 DEF Keep, KTypeOK
  <2>3. Placed(r)' /\ Fresh(r)' /\ CopyUploaded(r)'
    BY <1>1, <1>2, <1>4, <2>1, <2>2
       DEF Placed, Fresh, CopyUploaded, Saving, SavingFile, WithFile, WithReview
  <2>4. "file" \in KLabels /\ "file" \notin WithReview
    BY DEF KLabels, WithReview
  <2> QED
    BY <1>0, <1>1, <1>4, <2>3, <2>4, LocalStep DEF Keep, KTypeOK
<1>5. CASE req[r].op = "profile" /\ Keep(r, [user[U(r)] EXCEPT !.name = "new"], "diff")
  <2> DEFINE e == [user[U(r)] EXCEPT !.name = "new"]
  <2>1. /\ U(r)' = U(r) /\ OnProduct(r)' = OnProduct(r) /\ Named(r)' = Named(r)
        /\ req'[r] = req[r] /\ pc'[r] = "diff" /\ stale'[r] = stale[r]
        /\ user' = user /\ objects' = objects
    BY <1>0, <1>5, MoverKeeps DEF Keep, tables
  <2>2. e \in UserRow /\ e.avatar = user[U(r)].avatar
    BY <1>1 DEF UserRow
  <2>3. \A c \in Columns.user \ {"name"} : e[c] = user[U(r)][c]
    BY <1>1 DEF UserRow, Columns
  <2>4. mem'[r] = e /\ Named(r) = {"name"}
    BY <1>0, <1>5 DEF Keep, KTypeOK, Named
  <2> HIDE DEF e
  <2>5. Placed(r)' /\ CopyUploaded(r)'
    BY <1>1, <1>2, <1>5, <2>1, <2>2, <2>4
       DEF Placed, CopyUploaded, Saving, SavingFile, WithFile, WithReview
  <2>6. Fresh(r)'
    BY <1>2, <1>5, <2>1, <2>3, <2>4 DEF Fresh, Saving, SavingFile, WithFile
  <2>7. "diff" \in KLabels /\ "diff" \notin WithReview
    BY DEF KLabels, Saving, WithReview
  <2>8. mem' = [mem EXCEPT ![r] = e] /\ UNCHANGED <<tables, memFile, dirty>> /\ Goto(r, "diff")
    BY <1>5 DEF Keep, e
  <2> QED
    BY <1>0, <2>2, <2>5, <2>6, <2>7, <2>8, LocalStep DEF KTypeOK
<1> QED
  BY <1>3, <1>4, <1>5 DEF FindUser

\* addImage and removeImage load the file and change its entity; they go no
\* further than its owner and status do.
LEMMA FileLinkKeeps ==
  ASSUME KIInv, Track, UNCHANGED req, NEW r \in Requests, FileForAdd(r) \/ FileForRemove(r)
  PROVE  KIInv'
<1>0. KTypeOK /\ RowsUploaded /\ Placed(r) /\ pc[r] = "file"
      /\ req[r].op \in {"addImage", "removeImage"}
  BY DEF KIInv, FileForAdd, FileForRemove
<1>1. F(r) \in Files /\ P(r) \in Products /\ OnProduct(r) /\ product[P(r)] # None
  BY <1>0, BodyFacts DEF ProductOps, OnProduct, Placed, Begun, Done
<1>2. CASE \E label \in Done : Go(r, label)
  BY <1>0, <1>2, EndStep DEF Done
<1>3. ASSUME file[F(r)] # None, NEW x \in Products \cup {None},
             req[r].op = "addImage" => file[F(r)].entity = None,
             req[r].op = "removeImage" => file[F(r)].entity = P(r),
             KeepFile(r, [file[F(r)] EXCEPT !.entity = x], "diffFile")
      PROVE  KIInv'
  <2> DEFINE e == [file[F(r)] EXCEPT !.entity = x]
  <2>1. /\ P(r)' = P(r) /\ F(r)' = F(r) /\ OnProduct(r)' = OnProduct(r)
        /\ NamedFile(r)' = NamedFile(r)
        /\ req'[r] = req[r] /\ pc'[r] = "diffFile" /\ stale'[r] = stale[r]
        /\ file' = file /\ product' = product /\ objects' = objects
    BY <1>0, <1>3, MoverKeeps DEF KeepFile, tables
  <2>2. file[F(r)] \in FileRow
    BY <1>0, <1>1, <1>3 DEF KTypeOK
  <2>3. e \in FileRow /\ e.status = file[F(r)].status
    BY <2>2 DEF FileRow
  <2>4. \A c \in Columns.file \ {"entity"} : e[c] = file[F(r)][c]
    BY <2>2 DEF FileRow, Columns
  <2>5. memFile'[r] = e /\ NamedFile(r) = {"entity"}
    BY <1>0, <1>1, <1>3 DEF KeepFile, KTypeOK, NamedFile
  <2>6. e.status = "READY" => F(r) \in objects
    BY <1>0, <1>1, <1>3, <2>3 DEF RowsUploaded, Downloadable
  <2> HIDE DEF e
  <2>7. Placed(r)'
    BY <1>0, <1>1, <1>3, <2>1, <2>3, <2>5
       DEF Placed, Saving, SavingFile, WithFile, WithReview
  <2>8. Fresh(r)'
    BY <1>0, <1>3, <2>1, <2>4, <2>5 DEF Fresh, Saving, SavingFile, WithFile
  <2>9. CopyUploaded(r)'
    BY <1>0, <1>1, <2>1, <2>5, <2>6 DEF CopyUploaded, Saving, SavingFile, WithFile
  <2>10. "diffFile" \in KLabels /\ "diffFile" \notin WithReview
    BY DEF KLabels, WithFile, SavingFile, WithReview
  <2>11. /\ memFile' = [memFile EXCEPT ![r] = e] /\ UNCHANGED <<tables, mem, dirty>>
         /\ Goto(r, "diffFile")
    BY <1>3 DEF KeepFile, e
  <2> QED
    BY <1>0, <2>3, <2>7, <2>8, <2>9, <2>10, <2>11, LocalStep DEF KTypeOK
<1>4. CASE FileForAdd(r)
  <2>1. CASE Ready(r) /\ file[F(r)].entity = None
    BY <1>1, <1>3, <1>4, <2>1, CatalogueAssumption DEF FileForAdd, Ready, Exists
  <2> QED
    BY <1>2, <1>4, <2>1 DEF FileForAdd, Done
<1>5. CASE FileForRemove(r)
  BY <1>2, <1>3, <1>5 DEF FileForRemove, Done, Exists
<1> QED
  BY <1>4, <1>5

\* setMainImage finds its file.
LEMMA FileForMainKeeps ==
  ASSUME KIInv, Track, UNCHANGED req, NEW r \in Requests, FileForMain(r)
  PROVE  KIInv'
<1>0. KTypeOK /\ RowsUploaded /\ Placed(r) /\ pc[r] = "file" /\ req[r].op = "setMain"
  BY DEF KIInv, FileForMain
<1>1. F(r) \in Files /\ OnProduct(r) /\ product[P(r)] # None
  BY <1>0, BodyFacts DEF ProductOps, OnProduct, Placed, Begun, Done
<1>2. CASE Go(r, "failed")
  BY <1>0, <1>2, EndStep DEF Done
<1>3. CASE MayBeMain(r) /\ Go(r, "reload")
  <2>1. /\ P(r)' = P(r) /\ F(r)' = F(r) /\ OnProduct(r)' = OnProduct(r)
        /\ req'[r] = req[r] /\ pc'[r] = "reload"
        /\ file' = file /\ product' = product /\ objects' = objects
    BY <1>0, <1>3, MoverKeeps DEF Go, tables
  <2>2. F(r) \in objects /\ file[F(r)] # None /\ file[F(r)].entity = P(r)
    BY <1>0, <1>1, <1>3 DEF RowsUploaded, Downloadable, MayBeMain, Ready, Exists
  <2>3. Placed(r)' /\ Fresh(r)' /\ CopyUploaded(r)'
    BY <1>0, <1>1, <2>1, <2>2
       DEF Placed, Fresh, CopyUploaded, Saving, SavingFile, WithFile, WithReview
  <2>4. "reload" \in KLabels /\ "reload" \notin WithReview
    BY DEF KLabels, WithReview
  <2> QED
    BY <1>0, <1>3, <2>3, <2>4, LocalStep DEF Go, locals, KTypeOK
<1> QED
  BY <1>2, <1>3 DEF FileForMain

\* associateMainImage loads the product and sets its main image.
LEMMA ReloadProductKeeps ==
  ASSUME KIInv, Track, UNCHANGED req, NEW r \in Requests, ReloadProduct(r)
  PROVE  KIInv'
<1>0. /\ KTypeOK /\ RowsUploaded /\ Placed(r) /\ Fresh(r) /\ CopyUploaded(r)
      /\ pc[r] = "reload" /\ req[r].op = "setMain"
  BY DEF KIInv, ReloadProduct, Placed
<1>1. F(r) \in Files /\ P(r) \in Products /\ OnProduct(r) /\ product[P(r)] # None
  BY <1>0, BodyFacts DEF ProductOps, OnProduct, Placed, Begun, Done
<1>2. CASE Go(r, "failed")
  BY <1>0, <1>2, EndStep DEF Done
<1>3. CASE Keep(r, [product[P(r)] EXCEPT !.main = F(r)], "diff")
  <2> DEFINE e == [product[P(r)] EXCEPT !.main = F(r)]
  <2>1. /\ P(r)' = P(r) /\ F(r)' = F(r) /\ OnProduct(r)' = OnProduct(r) /\ Named(r)' = Named(r)
        /\ req'[r] = req[r] /\ pc'[r] = "diff" /\ stale'[r] = stale[r]
        /\ file' = file /\ product' = product /\ objects' = objects
    BY <1>0, <1>3, MoverKeeps DEF Keep, tables
  <2>2. product[P(r)] \in ProductRow
    BY <1>0, <1>1 DEF KTypeOK
  <2>3. e \in ProductRow /\ e.main = F(r)
    BY <1>1, <2>2 DEF ProductRow
  <2>4. \A c \in Columns.product \ {"main"} : e[c] = product[P(r)][c]
    BY <2>2 DEF ProductRow, Columns
  <2>5. mem'[r] = e /\ Named(r) = {"main"}
    BY <1>0, <1>3 DEF Keep, KTypeOK, Named
  <2>6. F(r) \in objects
    BY <1>0 DEF CopyUploaded
  <2>7. "entity" \notin stale[r] => file[F(r)] # None /\ file[F(r)].entity = P(r)
    BY <1>0 DEF Fresh
  <2> HIDE DEF e
  <2>8. Placed(r)' /\ CopyUploaded(r)'
    BY <1>0, <1>1, <2>1, <2>3, <2>5, <2>6
       DEF Placed, CopyUploaded, Saving, SavingFile, WithFile, WithReview
  <2>9. Fresh(r)'
    BY <1>0, <2>1, <2>4, <2>5, <2>7 DEF Fresh, Saving, SavingFile, WithFile
  <2>10. "diff" \in KLabels /\ "diff" \notin WithReview
    BY DEF KLabels, Saving, WithReview
  <2>11. mem' = [mem EXCEPT ![r] = e] /\ UNCHANGED <<tables, memFile, dirty>> /\ Goto(r, "diff")
    BY <1>3 DEF Keep, e
  <2> QED
    BY <1>0, <2>3, <2>8, <2>9, <2>10, <2>11, LocalStep DEF KTypeOK
<1> QED
  BY <1>2, <1>3 DEF ReloadProduct

\* completeUpload and setAvatar load the file record.
LEMMA FileForUserKeeps ==
  ASSUME KIInv, Track, UNCHANGED req, NEW r \in Requests, FileForUser(r)
  PROVE  KIInv'
<1>0. /\ KTypeOK /\ RowsUploaded /\ Placed(r) /\ Fresh(r) /\ CopyUploaded(r)
      /\ req[r].op \in {"avatar", "complete"} /\ pc[r] \in {"file", "new"}
      /\ (req[r].op = "avatar" => pc[r] = "file")
  BY DEF KIInv, FileForUser
<1>1. F(r) \in Files /\ ~OnProduct(r)
  BY <1>0, BodyFacts DEF ProductOps, OnProduct
<1>2. CASE \E label \in Done : Go(r, label)
  BY <1>0, <1>2, EndStep DEF Done
<1>3. CASE Exists(r) /\ ~(Ready(r) /\ req[r].op = "complete") /\ KeepFile(r, file[F(r)], "head")
  <2>1. /\ F(r)' = F(r) /\ U(r)' = U(r) /\ OnProduct(r)' = OnProduct(r)
        /\ NamedFile(r)' = NamedFile(r) /\ Named(r)' = Named(r)
        /\ req'[r] = req[r] /\ pc'[r] = "head" /\ stale'[r] = stale[r]
        /\ file' = file /\ user' = user /\ objects' = objects /\ mem' = mem
    BY <1>0, <1>3, MoverKeeps DEF KeepFile, tables
  <2>2. file[F(r)] \in FileRow /\ file[F(r)] # None
    BY <1>0, <1>1, <1>3 DEF KTypeOK, Exists
  <2>3. memFile'[r] = file[F(r)]
    BY <1>0, <1>3 DEF KeepFile, KTypeOK
  <2>4. req[r].op = "complete" => file[F(r)].status = "PENDING"
    BY <1>3, <2>2 DEF Ready, FileRow
  <2>5. file[F(r)].status = "READY" => F(r) \in objects
    BY <1>0, <1>1, <2>2 DEF RowsUploaded, Downloadable
  <2>6. req[r].op = "avatar" => Begun(r)
    BY <1>0 DEF Begun, Done
  <2>7. Placed(r)'
    BY <1>0, <1>1, <2>1, <2>2, <2>3, <2>4, <2>6
       DEF Placed, Saving, SavingFile, WithFile, WithReview
  <2>8. Fresh(r)'
    BY <1>0, <1>1, <2>1, <2>3, <2>6 DEF Fresh, Saving, SavingFile, WithFile
  <2>9. CopyUploaded(r)'
    BY <1>0, <1>1, <2>1, <2>3, <2>5, <2>6 DEF CopyUploaded, Saving, SavingFile, WithFile
  <2>10. "head" \in KLabels /\ "head" \notin WithReview
    BY DEF KLabels, WithFile, WithReview
  <2> QED
    BY <1>0, <1>3, <2>2, <2>7, <2>8, <2>9, <2>10, LocalStep DEF KeepFile, KTypeOK
<1> QED
  BY <1>2, <1>3 DEF FileForUser, Done

\* checkFileExists, and what follows from its answer.
LEMMA HeadObjectKeeps ==
  ASSUME KIInv, Track, UNCHANGED req, NEW r \in Requests, HeadObject(r)
  PROVE  KIInv'
<1>0. /\ KTypeOK /\ RowsUploaded /\ Placed(r) /\ Fresh(r) /\ CopyUploaded(r)
      /\ pc[r] = "head" /\ req[r].op \in {"avatar", "complete"}
      /\ memFile[r] \in FileRow /\ file[F(r)] # None /\ Begun(r)
  BY DEF KIInv, HeadObject, Placed, WithFile, Begun, Done
<1>1. F(r) \in Files /\ ~OnProduct(r)
  BY <1>0, BodyFacts DEF ProductOps, OnProduct
<1>2. CASE Go(r, "failed")
  BY <1>0, <1>2, EndStep DEF Done
<1>3. CASE Uploaded(F(r)) /\ KeepFile(r, [memFile[r] EXCEPT !.status = "READY"], "diffFile")
  <2> DEFINE e == [memFile[r] EXCEPT !.status = "READY"]
  <2>1. /\ F(r)' = F(r) /\ U(r)' = U(r) /\ OnProduct(r)' = OnProduct(r)
        /\ NamedFile(r)' = NamedFile(r) /\ Named(r)' = Named(r)
        /\ req'[r] = req[r] /\ pc'[r] = "diffFile" /\ stale'[r] = stale[r]
        /\ file' = file /\ user' = user /\ objects' = objects /\ mem' = mem
    BY <1>0, <1>3, MoverKeeps DEF KeepFile, tables
  <2>2. e \in FileRow
    BY <1>0 DEF FileRow
  <2>3. \A c \in Columns.file \ {"status"} : e[c] = memFile[r][c]
    BY <1>0 DEF FileRow, Columns
  <2>4. memFile'[r] = e /\ NamedFile(r) = {"status"} /\ F(r) \in objects
    BY <1>0, <1>1, <1>3 DEF KeepFile, KTypeOK, NamedFile, Uploaded
  <2> HIDE DEF e
  <2>5. Placed(r)'
    BY <1>0, <1>1, <2>1, <2>2, <2>4 DEF Placed, Saving, SavingFile, WithFile, WithReview
  <2>6. Fresh(r)'
    BY <1>0, <1>1, <2>1, <2>3, <2>4 DEF Fresh, Saving, SavingFile, WithFile
  <2>7. CopyUploaded(r)'
    BY <1>0, <1>1, <2>1, <2>4 DEF CopyUploaded, Saving, SavingFile, WithFile
  <2>8. "diffFile" \in KLabels /\ "diffFile" \notin WithReview
    BY DEF KLabels, WithFile, SavingFile, WithReview
  <2>9. /\ memFile' = [memFile EXCEPT ![r] = e] /\ UNCHANGED <<tables, mem, dirty>>
        /\ Goto(r, "diffFile")
    BY <1>3 DEF KeepFile, e
  <2> QED
    BY <1>0, <2>2, <2>5, <2>6, <2>7, <2>8, <2>9, LocalStep DEF KTypeOK
<1>4. CASE Uploaded(F(r)) /\ memFile[r].status = "READY" /\ Keep(r, WithAvatar(r), "diff")
  <2> DEFINE e == WithAvatar(r)
  <2>1. /\ F(r)' = F(r) /\ U(r)' = U(r) /\ OnProduct(r)' = OnProduct(r) /\ Named(r)' = Named(r)
        /\ req'[r] = req[r] /\ pc'[r] = "diff" /\ stale'[r] = stale[r]
        /\ file' = file /\ user' = user /\ objects' = objects
    BY <1>0, <1>4, MoverKeeps DEF Keep, tables
  <2>2. req[r].op = "avatar" /\ mem[r] \in UserRow
    BY <1>0, <1>4 DEF Placed
  <2>3. e \in UserRow /\ e.avatar = F(r) /\ F(r) \in objects
    BY <1>1, <1>4, <2>2 DEF UserRow, WithAvatar, Uploaded
  <2>4. \A c \in Columns.user \ {"avatar"} : e[c] = mem[r][c]
    BY <2>2 DEF UserRow, Columns, WithAvatar
  <2>5. mem'[r] = e /\ Named(r) = {"avatar"}
    BY <1>0, <1>4, <2>2 DEF Keep, KTypeOK, Named
  <2> HIDE DEF e
  <2>6. Placed(r)' /\ CopyUploaded(r)'
    BY <1>1, <2>1, <2>2, <2>3, <2>5
       DEF Placed, CopyUploaded, Saving, SavingFile, WithFile, WithReview
  <2>7. Fresh(r)'
    BY <1>0, <1>1, <2>1, <2>2, <2>4, <2>5 DEF Fresh, Saving, SavingFile, WithFile
  <2>8. "diff" \in KLabels /\ "diff" \notin WithReview
    BY DEF KLabels, Saving, WithReview
  <2>9. mem' = [mem EXCEPT ![r] = e] /\ UNCHANGED <<tables, memFile, dirty>> /\ Goto(r, "diff")
    BY <1>4 DEF Keep, e
  <2> QED
    BY <1>0, <2>3, <2>6, <2>7, <2>8, <2>9, LocalStep DEF KTypeOK
<1> QED
  BY <1>2, <1>3, <1>4 DEF HeadObject

\* The comparison of a save with the row.
LEMMA DiffKeeps ==
  ASSUME KIInv, Track, UNCHANGED req, NEW r \in Requests, DiffFile(r) \/ Diff(r)
  PROVE  KIInv'
<1>0. KTypeOK /\ Placed(r) /\ Fresh(r) /\ CopyUploaded(r)
  BY DEF KIInv
<1> DEFINE label == IF DiffFile(r) THEN "writeFile" ELSE "write"
<1>1. /\ Goto(r, label)
      /\ \/ pc[r] = "diffFile" /\ label = "writeFile"
         \/ pc[r] = "diff" /\ label = "write"
  <2>1. CASE DiffFile(r)
    BY <2>1 DEF DiffFile
  <2>2. CASE Diff(r) /\ ~DiffFile(r)
    <3>1. pc[r] = "diff" /\ Goto(r, "write")
      BY <2>2 DEF Diff
    <3> QED
      BY <2>2, <3>1
  <2> QED
    BY <2>1, <2>2
<1> HIDE DEF label
<1>2. /\ UNCHANGED <<tables, mem, memFile>> /\ DOMAIN dirty' = Requests
  BY <1>0 DEF DiffFile, Diff, KTypeOK
<1>3. /\ P(r)' = P(r) /\ F(r)' = F(r) /\ U(r)' = U(r) /\ OnProduct(r)' = OnProduct(r)
      /\ NamedFile(r)' = NamedFile(r) /\ Named(r)' = Named(r)
      /\ req'[r] = req[r] /\ pc'[r] = label /\ stale'[r] = stale[r]
  BY <1>1, MoverKeeps
<1>4. /\ product' = product /\ file' = file /\ user' = user /\ objects' = objects
      /\ mem' = mem /\ memFile' = memFile
  BY <1>2 DEF tables
<1>5. /\ \A l \in {"file", "reload", "head", "unlink", "find", "insertReview"} \cup WithReview \cup Done :
           pc[r] # l /\ pc'[r] # l
      /\ pc[r] \in Saving <=> pc'[r] \in Saving
      /\ pc[r] \in SavingFile <=> pc'[r] \in SavingFile
      /\ pc[r] \in WithFile <=> pc'[r] \in WithFile
      /\ Begun(r) /\ Begun(r)'
  BY <1>1, <1>3 DEF Saving, SavingFile, WithFile, WithReview, Done, Begun
<1>6. Placed(r)'
  BY <1>0, <1>3, <1>4, <1>5 DEF Placed
<1>7. Fresh(r)'
  BY <1>0, <1>3, <1>4, <1>5 DEF Fresh
<1>8. CopyUploaded(r)'
  BY <1>0, <1>3, <1>4, <1>5 DEF CopyUploaded
<1>9. label \in KLabels /\ label \notin WithReview /\ label # pc[r]
      /\ pc[r] \notin {"unlink", "failed"}
  BY <1>1 DEF KLabels, WithFile, SavingFile, Saving, WithReview
<1> QED
  BY <1>0, <1>1, <1>2, <1>6, <1>7, <1>8, <1>9, LocalStep DEF KTypeOK

\* A request that fails.
LEMMA FailsKeeps ==
  ASSUME KIInv, Track, UNCHANGED req, NEW r \in Requests, Fails(r)
  PROVE  KIInv'
BY EndStep DEF Fails, Done

-----------------------------------------------------------------------------
(* Reviews *)

\* The lookup of the caller's review.
LEMMA FindReviewKeeps ==
  ASSUME KIInv, Track, UNCHANGED req, NEW r \in Requests, FindReview(r)
  PROVE  KIInv'
<1>0. KTypeOK /\ Placed(r) /\ pc[r] = "find" /\ req[r].op \in ReviewOps
  BY DEF KIInv, FindReview, Placed
<1>1. ~OnProduct(r) /\ req[r].op \notin UserOps /\ req[r].rating \in Ratings
  BY <1>0, BodyFacts DEF OnProduct, ProductOps, ReviewOps, UserOps
<1>2. CASE Go(r, "failed")
  BY <1>0, <1>2, EndStep DEF Done
<1>3. CASE Go(r, "insertReview")
  <2>1. /\ OnProduct(r)' = OnProduct(r) /\ req'[r] = req[r] /\ pc'[r] = "insertReview"
    BY <1>0, <1>3, MoverKeeps DEF Go
  <2>2. Placed(r)' /\ Fresh(r)' /\ CopyUploaded(r)'
    BY <1>0, <1>1, <2>1
       DEF Placed, Fresh, CopyUploaded, Saving, SavingFile, WithFile, WithReview, UserOps,
           ReviewOps
  <2>3. "insertReview" \in KLabels /\ "insertReview" \notin WithReview
    BY DEF KLabels, WithReview
  <2> QED
    BY <1>0, <1>3, <2>2, <2>3, LocalStep DEF Go, locals, KTypeOK
<1>4. ASSUME NEW v \in Mine(r), NEW e \in AnyReview, NEW label \in {"diffReview", "deleteReview"},
             e.id = v.id, e.user = v.user, e.product = v.product, Keep(r, e, label)
      PROVE  KIInv'
  <2>1. /\ P(r)' = P(r) /\ U(r)' = U(r) /\ OnProduct(r)' = OnProduct(r)
        /\ req'[r] = req[r] /\ pc'[r] = label
    BY <1>0, <1>4, MoverKeeps DEF Keep
  <2>2. v \in reviews /\ v.user = U(r) /\ v.product = P(r)
    BY DEF Mine
  <2>3. mem'[r] = e
    BY <1>0, <1>4 DEF Keep, KTypeOK
  <2>4. Placed(r)' /\ Fresh(r)' /\ CopyUploaded(r)'
    BY <1>0, <1>1, <1>4, <2>1, <2>2, <2>3
       DEF Placed, Fresh, CopyUploaded, Saving, SavingFile, WithFile, WithReview, UserOps,
           ReviewOps
  <2>5. label \in KLabels
    BY DEF KLabels, WithReview
  <2> QED
    BY <1>0, <1>4, <2>2, <2>3, <2>4, <2>5, LocalStep DEF Keep, KTypeOK
<1>5. CASE \E v \in Mine(r) : Keep(r, [v EXCEPT !.rating = req[r].rating], "diffReview")
  <2>1. PICK v \in Mine(r) : Keep(r, [v EXCEPT !.rating = req[r].rating], "diffReview")
    BY <1>5
  <2> DEFINE e == [v EXCEPT !.rating = req[r].rating]
  <2>2. v \in AnyReview
    BY <1>0 DEF Mine, KTypeOK
  <2>3. e \in AnyReview /\ e.id = v.id /\ e.user = v.user /\ e.product = v.product
    BY <1>1, <2>2 DEF AnyReview
  <2> QED
    BY <1>4, <2>1, <2>3
<1>6. CASE \E v \in Mine(r) : Keep(r, v, "deleteReview")
  <2>1. PICK v \in Mine(r) : Keep(r, v, "deleteReview")
    BY <1>6
  <2>2. v \in AnyReview
    BY <1>0 DEF Mine, KTypeOK
  <2> QED
    BY <1>4, <2>1, <2>2
<1> QED
  BY <1>2, <1>3, <1>5, <1>6 DEF FindReview

\* A request about a review keeps its place and what it holds.
LEMMA ReviewPlace ==
  ASSUME KIInv, Track, UNCHANGED <<req, mem>>, NEW r \in Requests, pc[r] \in WithReview,
         pc'[r] \in WithReview
  PROVE  Placed(r)' /\ Fresh(r)' /\ CopyUploaded(r)'
<1>0. Placed(r) /\ req'[r] = req[r] /\ req[r].op \in ReviewOps /\ ~OnProduct(r)'
      /\ P(r)' = P(r) /\ U(r)' = U(r)
  BY DEF KIInv, Placed, OnProduct, ProductOps, ReviewOps, P, U
<1> QED
  BY <1>0 DEF Placed, Fresh, CopyUploaded, Saving, SavingFile, WithFile, WithReview, ReviewOps

LEMMA DiffReviewKeeps ==
  ASSUME KIInv, Track, UNCHANGED req, NEW r \in Requests, DiffReview(r)
  PROVE  KIInv'
<1>0. KTypeOK /\ pc[r] = "diffReview"
  BY DEF KIInv, DiffReview
<1>1. PICK label \in {"reinsertReview", "updateReview"} : Go(r, label)
  BY DEF DiffReview
<1>2. pc'[r] = label /\ pc[r] \in WithReview /\ label \in WithReview /\ label \in KLabels
  BY <1>0, <1>1, MoverKeeps DEF Go, WithReview, KLabels
<1>3. Placed(r)' /\ Fresh(r)' /\ CopyUploaded(r)'
  BY <1>1, <1>2, ReviewPlace DEF Go, locals
<1> QED
  BY <1>0, <1>1, <1>2, <1>3, LocalStep DEF Go, locals, KTypeOK

\* A step that changes the reviews and ends its request, or leaves it.
LEMMA ReviewStep ==
  ASSUME KIInv, Track, UNCHANGED <<product, file, user, objects, locals, req>>,
         NEW r \in Requests, pc[r] \in {"insertReview"} \cup WithReview, Goto(r, "answered"),
         reviews' \subseteq AnyReview, lastId' \in Nat, lastId <= lastId',
         OneReviewPerUser',
         \A v \in reviews' : v.id <= lastId',
         \A v, w \in reviews' : v.id = w.id => v = w,
         \A v \in reviews' :
           \/ v.id = lastId + 1
           \/ \E w \in reviews : v.id = w.id /\ v.user = w.user /\ v.product = w.product
           \/ pc[r] \in WithReview /\ v.id = mem[r].id /\ v.user = U(r) /\ v.product = P(r)
  PROVE  KIInv'
<1>0. KTypeOK /\ RowsUploaded /\ ReviewIds /\ MainsLinked
  BY DEF KIInv
<1>1. /\ pc'[r] = "answered" /\ \A s \in Requests \ {r} : pc'[s] = pc[s]
  BY MoverKeeps DEF WithReview
<1>2. Placed(r)' /\ Fresh(r)' /\ CopyUploaded(r)'
  BY <1>1, NothingHeld DEF Done
<1>3. TablesGrow
  BY <1>0 DEF KTypeOK, TablesGrow
<1>4. KTypeOK'
  BY <1>0, StaleGrows DEF KTypeOK, Goto, locals, KLabels, Done
<1>5. RowsUploaded'
  BY <1>0 DEF RowsUploaded, Downloadable
<1>6. ReviewIds'
  <2>1. \A s \in Requests : P(s)' = P(s) /\ U(s)' = U(s)
    BY DEF P, U
  <2>2. ASSUME NEW q \in Requests, pc'[q] \in WithReview
        PROVE  /\ mem'[q].id <= lastId'
               /\ \A v \in reviews' : v.id = mem'[q].id => v.user = U(q)' /\ v.product = P(q)'
               /\ \A s \in Requests : pc'[s] \in WithReview /\ mem'[s].id = mem'[q].id =>
                    U(s)' = U(q)' /\ P(s)' = P(q)'
    <3>1. q # r /\ pc[q] \in WithReview /\ mem' = mem
      BY <1>1, <2>2 DEF WithReview, locals
    <3>2. /\ mem[q].id <= lastId
          /\ \A v \in reviews : v.id = mem[q].id => v.user = U(q) /\ v.product = P(q)
          /\ \A s \in Requests : pc[s] \in WithReview /\ mem[s].id = mem[q].id =>
               U(s) = U(q) /\ P(s) = P(q)
      BY <1>0, <3>1 DEF ReviewIds
    <3>3. mem[q] \in AnyReview
      BY <3>1 DEF KIInv, Placed
    <3>4. mem'[q].id <= lastId' /\ mem[q].id # lastId + 1
      BY <1>0, <3>1, <3>2, <3>3 DEF KTypeOK, AnyReview
    <3>5. \A v \in reviews' : v.id = mem'[q].id => v.user = U(q)' /\ v.product = P(q)'
      BY <2>1, <3>1, <3>2, <3>4
    <3>6. \A s \in Requests : pc'[s] \in WithReview => pc[s] \in WithReview
      BY <1>1 DEF WithReview
    <3> QED
      BY <2>1, <3>1, <3>2, <3>4, <3>5, <3>6
  <2> QED
    BY <2>2 DEF ReviewIds
<1>7. MainsLinked'
  <2>1. \A p \in Products, f \in Files : RemovalUnderWay(p, f) => RemovalUnderWay(p, f)'
    BY <1>1, RemovalStays DEF WithReview
  <2> QED
    BY <1>0, <2>1, StaleGrows DEF MainsLinked
<1> QED
  BY <1>1, <1>2, <1>3, <1>4, <1>5, <1>6, <1>7, MoveKeeps DEF locals

LEMMA InsertReviewKeeps ==
  ASSUME KIInv, Track, UNCHANGED req, NEW r \in Requests, InsertReview(r)
  PROVE  KIInv'
<1>0. KTypeOK /\ ReviewIds /\ pc[r] = "insertReview" /\ req[r].op \in ReviewOps
  BY DEF KIInv, InsertReview, Placed
<1>1. CASE Go(r, "failed")
  BY <1>0, <1>1, EndStep DEF Done
<1>2. CASE ~Go(r, "failed")
  <2> DEFINE new == [id |-> lastId + 1, user |-> U(r), product |-> P(r), rating |-> req[r].rating]
  <2>1. /\ Mine(r) = {} /\ lastId' = lastId + 1 /\ reviews' = reviews \cup {new}
        /\ Goto(r, "answered") /\ UNCHANGED <<product, file, user, objects, locals>>
    BY <1>2 DEF InsertReview, Unreviewed, PutReviews
  <2>2. lastId \in Nat /\ new \in AnyReview
    BY <1>0, BodyFacts DEF KTypeOK, AnyReview
  <2>3. new.id = lastId + 1 /\ new.user = U(r) /\ new.product = P(r)
    OBVIOUS
  <2> HIDE DEF new
  <2>4. \A v \in reviews : v.id <= lastId /\ v.id \in Nat /\ ~(v.user = U(r) /\ v.product = P(r))
    BY <1>0, <2>1 DEF Mine, ReviewIds, KTypeOK, AnyReview
  <2>5. OneReviewPerUser'
    BY <1>0, <2>1, <2>3, <2>4 DEF OneReviewPerUser, ReviewIds
  <2>6. \A v \in reviews' : v.id <= lastId'
    BY <2>1, <2>2, <2>3, <2>4
  <2>7. \A v, w \in reviews' : v.id = w.id => v = w
    BY <1>0, <2>1, <2>2, <2>3, <2>4 DEF ReviewIds
  <2>8. reviews' \subseteq AnyReview /\ lastId' \in Nat /\ lastId <= lastId'
    BY <1>0, <2>1, <2>2 DEF KTypeOK
  <2>9. \A v \in reviews' :
          \/ v.id = lastId + 1
          \/ \E w \in reviews : v.id = w.id /\ v.user = w.user /\ v.product = w.product
    BY <2>1, <2>3
  <2> QED
    BY <1>0, <2>1, <2>5, <2>6, <2>7, <2>8, <2>9, ReviewStep
<1> QED
  BY <1>1, <1>2

\* The UPDATE, the second INSERT and the DELETE of a review known by its id.
LEMMA SaveReviewKeeps ==
  ASSUME KIInv, Track, UNCHANGED req, NEW r \in Requests,
         UpdateReview(r) \/ ReinsertReview(r) \/ DeleteReview(r)
  PROVE  KIInv'
<1>0. KTypeOK /\ ReviewIds /\ OneReviewPerUser /\ pc[r] \in WithReview /\ lastId \in Nat
      /\ pc[r] \in {"updateReview", "reinsertReview", "deleteReview"}
  BY DEF KIInv, UpdateReview, ReinsertReview, DeleteReview, WithReview, ReviewIds, KTypeOK
<1>1. mem[r] \in AnyReview /\ mem[r].user = U(r) /\ mem[r].product = P(r) /\ mem[r].id <= lastId
  BY <1>0 DEF KIInv, Placed, ReviewIds
<1>2. \A v \in reviews : v.id = mem[r].id => v.user = U(r) /\ v.product = P(r)
  BY <1>0 DEF ReviewIds
<1>3. /\ \A v, w \in reviews : v.id = w.id => v = w
      /\ \A v, w \in reviews : v.user = w.user /\ v.product = w.product => v = w
      /\ \A v \in reviews : v.id <= lastId
      /\ reviews \subseteq AnyReview
  BY <1>0 DEF ReviewIds, OneReviewPerUser, KTypeOK
<1>4. CASE UpdateReview(r)
  <2>1. /\ reviews' = {IF v.id = mem[r].id THEN mem[r] ELSE v : v \in reviews}
        /\ lastId' = lastId /\ Goto(r, "answered") /\ UNCHANGED <<product, file, user, objects, locals>>
    BY <1>4 DEF UpdateReview, PutReviews
  <2>2. \A x \in reviews' : \E v \in reviews :
          /\ x = IF v.id = mem[r].id THEN mem[r] ELSE v
          /\ x.id = v.id /\ x.user = v.user /\ x.product = v.product
    BY <1>1, <1>2, <2>1
  <2>3. OneReviewPerUser' /\ \A v, w \in reviews' : v.id = w.id => v = w
    <3>1. ASSUME NEW x \in reviews', NEW y \in reviews',
                 x.id = y.id \/ (x.user = y.user /\ x.product = y.product)
          PROVE  x = y
      <4>1. PICK v \in reviews : /\ x = IF v.id = mem[r].id THEN mem[r] ELSE v
                                 /\ x.id = v.id /\ x.user = v.user /\ x.product = v.product
        BY <2>2
      <4>2. PICK w \in reviews : /\ y = IF w.id = mem[r].id THEN mem[r] ELSE w
                                 /\ y.id = w.id /\ y.user = w.user /\ y.product = w.product
        BY <2>2
      <4>3. v = w
        BY <1>3, <3>1, <4>1, <4>2
      <4> QED
        BY <4>1, <4>2, <4>3
    <3> QED
      BY <3>1 DEF OneReviewPerUser
  <2>4. \A v \in reviews' : v.id <= lastId'
    BY <1>3, <2>1, <2>2
  <2>5. reviews' \subseteq AnyReview /\ lastId' \in Nat /\ lastId <= lastId'
    BY <1>0, <1>1, <1>3, <2>1
  <2>6. \A v \in reviews' : \E w \in reviews : v.id = w.id /\ v.user = w.user /\ v.product = w.product
    BY <2>2
  <2> QED
    BY <1>0, <2>1, <2>3, <2>4, <2>5, <2>6, ReviewStep
<1>5. CASE ReinsertReview(r) /\ Unreviewed(r)
  <2>1. /\ reviews' = reviews \cup {mem[r]} /\ Mine(r) = {}
        /\ lastId' = lastId /\ Goto(r, "answered") /\ UNCHANGED <<product, file, user, objects, locals>>
    BY <1>5 DEF ReinsertReview, PutReviews, Unreviewed
  <2>2. \A v \in reviews : ~(v.user = U(r) /\ v.product = P(r)) /\ v.id # mem[r].id
    BY <1>2, <2>1 DEF Mine
  <2>3. OneReviewPerUser' /\ \A v, w \in reviews' : v.id = w.id => v = w
    BY <1>1, <1>3, <2>1, <2>2 DEF OneReviewPerUser
  <2>4. /\ \A v \in reviews' : v.id <= lastId'
        /\ reviews' \subseteq AnyReview /\ lastId' \in Nat /\ lastId <= lastId'
    BY <1>0, <1>1, <1>3, <2>1
  <2>5. \A v \in reviews' :
          \/ \E w \in reviews : v.id = w.id /\ v.user = w.user /\ v.product = w.product
          \/ v.id = mem[r].id /\ v.user = U(r) /\ v.product = P(r)
    BY <1>1, <2>1
  <2> QED
    BY <1>0, <2>1, <2>3, <2>4, <2>5, ReviewStep
<1>6. CASE ReinsertReview(r) /\ ~Unreviewed(r)
  BY <1>0, <1>6, EndStep DEF ReinsertReview, Done, WithReview
<1>7. CASE DeleteReview(r)
  <2>1. /\ reviews' \subseteq reviews
        /\ lastId' = lastId /\ Goto(r, "answered") /\ UNCHANGED <<product, file, user, objects, locals>>
    BY <1>7 DEF DeleteReview, PutReviews
  <2>2. OneReviewPerUser' /\ \A v, w \in reviews' : v.id = w.id => v = w
    BY <1>3, <2>1 DEF OneReviewPerUser
  <2>3. /\ \A v \in reviews' : v.id <= lastId'
        /\ reviews' \subseteq AnyReview /\ lastId' \in Nat /\ lastId <= lastId'
    BY <1>0, <1>3, <2>1
  <2>4. \A v \in reviews' : \E w \in reviews : v.id = w.id /\ v.user = w.user /\ v.product = w.product
    BY <2>1
  <2> QED
    BY <1>0, <2>1, <2>2, <2>3, <2>4, ReviewStep
<1> QED
  BY <1>4, <1>5, <1>6, <1>7

-----------------------------------------------------------------------------
(* Writing the rows *)

\* Reviews and their ids are not touched by a step on other rows, whichever
\* request it moves, as long as it is about no review.
LEMMA ReviewsStay ==
  ASSUME KIInv, UNCHANGED <<reviews, lastId, req>>,
         \A s \in Requests : pc'[s] \in WithReview => pc[s] \in WithReview /\ mem'[s] = mem[s]
  PROVE  ReviewIds'
<1>0. ReviewIds
  BY DEF KIInv
<1>1. \A s \in Requests : P(s)' = P(s) /\ U(s)' = U(s)
  BY DEF P, U
<1> QED
  BY <1>0, <1>1 DEF ReviewIds, OneReviewPerUser

\* save(fileRecord): the record stays an uploaded one if it is shown, and its
\* entity moves only as the operation says unless the request was overtaken.
LEMMA WriteFileKeeps ==
  ASSUME KIInv, Track, UNCHANGED req, NEW r \in Requests, WriteFile(r)
  PROVE  KIInv'
<1>0. /\ KTypeOK /\ RowsUploaded /\ MainsLinked /\ Placed(r) /\ Fresh(r) /\ CopyUploaded(r)
      /\ pc[r] = "writeFile" /\ Begun(r)
      /\ req[r].op \in {"addImage", "removeImage", "avatar", "complete"}
      /\ memFile[r] \in FileRow /\ file[F(r)] # None
  BY DEF KIInv, WriteFile, Placed, WithFile, SavingFile, Begun, Done
<1>1. F(r) \in Files /\ (OnProduct(r) <=> req[r].op \in {"addImage", "removeImage"})
  BY <1>0, BodyFacts DEF ProductOps, OnProduct
<1> DEFINE new == Merge(memFile[r], file[F(r)], dirty[r])
           label == AfterFile(r)
<1>2. file[F(r)] \in FileRow
  BY <1>0, <1>1 DEF KTypeOK
<1>3. /\ new \in FileRow /\ new # None
      /\ new.status = IF "status" \in dirty[r] THEN memFile[r].status ELSE file[F(r)].status
      /\ new.entity = IF "entity" \in dirty[r] THEN memFile[r].entity ELSE file[F(r)].entity
  BY <1>0, <1>2, MergeFile, CatalogueAssumption DEF Columns
<1>4. /\ file' = [file EXCEPT ![F(r)] = new] /\ Goto(r, label)
      /\ mem' = [mem EXCEPT ![r] = IF req[r].op = "avatar" THEN WithAvatar(r) ELSE @]
      /\ UNCHANGED <<product, user, reviews, lastId, objects, memFile, dirty>>
  BY DEF WriteFile
<1>5. \/ req[r].op = "removeImage" /\ label = "unlink"
      \/ req[r].op = "avatar" /\ label = "diff"
      \/ req[r].op \in {"addImage", "complete"} /\ label = "answered"
  BY <1>0 DEF AfterFile
<1> HIDE DEF new, label
<1>6. file'[F(r)] = new /\ \A f \in Files \ {F(r)} : file'[f] = file[f]
  BY <1>0, <1>1, <1>4 DEF KTypeOK
<1>7. /\ P(r)' = P(r) /\ F(r)' = F(r) /\ U(r)' = U(r) /\ OnProduct(r)' = OnProduct(r)
      /\ Named(r)' = Named(r) /\ req'[r] = req[r] /\ pc'[r] = label /\ stale'[r] = stale[r]
      /\ \A s \in Requests \ {r} : pc'[s] = pc[s]
  BY <1>0, <1>4, <1>5, MoverKeeps
<1>8. req[r].op = "avatar" =>
        /\ mem'[r] = WithAvatar(r) /\ WithAvatar(r) \in UserRow /\ WithAvatar(r).avatar = F(r)
        /\ \A c \in Columns.user \ {"avatar"} : WithAvatar(r)[c] = mem[r][c]
        /\ Named(r) = {"avatar"}
  <2>1. ASSUME req[r].op = "avatar"
        PROVE  mem[r] \in UserRow
    BY <1>0, <2>1 DEF Placed
  <2>2. mem[r] \in UserRow => /\ WithAvatar(r) \in UserRow /\ WithAvatar(r).avatar = F(r)
                              /\ \A c \in Columns.user \ {"avatar"} : WithAvatar(r)[c] = mem[r][c]
    BY <1>1 DEF WithAvatar, UserRow, Columns
  <2>3. req[r].op = "avatar" => mem'[r] = WithAvatar(r) /\ Named(r) = {"avatar"}
    BY <1>0, <1>4 DEF KTypeOK, Named
  <2> QED
    BY <2>1, <2>2, <2>3
<1>9. \A s \in Requests \ {r} : mem'[s] = mem[s]
  BY <1>0, <1>4 DEF KTypeOK
<1>10. TablesGrow
  BY <1>0, <1>3, <1>4, <1>6 DEF KTypeOK, TablesGrow
<1>11. KTypeOK'
  <2>1. mem' \in [Requests -> ProductRow \cup UserRow \cup AnyReview \cup {None}]
    <3>1. CASE req[r].op = "avatar"
      BY <1>0, <1>4, <1>8, <3>1 DEF KTypeOK
    <3>2. CASE req[r].op # "avatar"
      BY <1>0, <1>4, <3>2 DEF KTypeOK
    <3> QED
      BY <3>1, <3>2
  <2>2. label \in KLabels
    BY <1>5 DEF KLabels, Done, Saving
  <2>3. pc' \in [Requests -> KLabels]
    BY <1>0, <1>4, <2>2 DEF KTypeOK, Goto
  <2>4. product' = product /\ user' = user /\ reviews' = reviews /\ lastId' = lastId
        /\ objects' = objects /\ memFile' = memFile /\ dirty' = dirty /\ req' = req
    BY <1>4
  <2>5. file' \in [Files -> FileRow \cup {None}]
    BY <1>10 DEF TablesGrow
  <2> QED
    BY <1>0, <2>1, <2>3, <2>4, <2>5, StaleGrows DEF KTypeOK
<1>12. RowsUploaded'
  <2>1. new.status = "READY" => F(r) \in objects
    BY <1>0, <1>1, <1>3 DEF CopyUploaded, RowsUploaded, Downloadable, WithFile, SavingFile
  <2>2. \A f \in objects' : file'[f] # None
    BY <1>0, <1>3, <1>4, <1>6 DEF RowsUploaded, KTypeOK
  <2>3. \A f \in Files : Downloadable(f)' => f \in objects'
    BY <1>0, <1>4, <1>6, <2>1 DEF RowsUploaded, Downloadable
  <2> QED
    BY <1>0, <1>4, <2>2, <2>3 DEF RowsUploaded
<1>13. ReviewIds'
  <2>1. \A s \in Requests : pc'[s] \in WithReview => pc[s] \in WithReview /\ mem'[s] = mem[s]
    BY <1>5, <1>7, <1>9 DEF WithReview
  <2> QED
    BY <1>4, <2>1, ReviewsStay
<1>14. MainsLinked'
  <2> SUFFICES ASSUME NEW p \in Products, NEW f \in Files, product[p] # None, product[p].main = f,
                      file'[f].entity # p, ~Overtaken'
               PROVE  RemovalUnderWay(p, f)'
    BY <1>4 DEF MainsLinked
  <2>1. ~Overtaken /\ stale[r] = {}
    <3>1. ~Overtaken
      BY StaleGrows
    <3> QED
      BY <3>1 DEF Overtaken
  <2>2. CASE file[f].entity # p
    <3>1. RemovalUnderWay(p, f)
      BY <1>0, <2>1, <2>2 DEF MainsLinked
    <3> QED
      BY <1>0, <1>7, <3>1, RemovalStays
  <2>3. CASE file[f].entity = p
    <3>1. f = F(r) /\ file'[f].entity = new.entity
      BY <1>6, <2>3
    <3>2. None # p
      BY CatalogueAssumption
    <3>3. req[r].op = "addImage" => file[f].entity = None
      BY <1>0, <2>1, <3>1 DEF Fresh, SavingFile
    <3>4. req[r].op = "removeImage" => file[f].entity = P(r)
      BY <1>0, <2>1, <3>1 DEF Fresh, SavingFile
    <3>5. ~OnProduct(r) => memFile[r].entity = file[f].entity
      <4>1. ~OnProduct(r) => "entity" \in Columns.file \ (NamedFile(r) \cup stale[r])
        BY <2>1 DEF Columns, NamedFile
      <4> QED
        BY <1>0, <3>1, <4>1 DEF Fresh, WithFile, SavingFile
    <3>6. req[r].op = "removeImage"
      BY <1>0, <1>1, <1>3, <2>3, <3>1, <3>2, <3>3, <3>5
    <3>7. label = "unlink" /\ P(r) = p
      BY <1>5, <2>3, <3>4, <3>6
    <3> QED
      BY <1>7, <3>1, <3>6, <3>7 DEF RemovalUnderWay
  <2> QED
    BY <2>2, <2>3
<1>15. Placed(r)' /\ Fresh(r)' /\ CopyUploaded(r)'
  <2>1. CASE label = "answered"
    BY <1>7, <2>1, NothingHeld DEF Done
  <2>2. CASE req[r].op = "removeImage" /\ label = "unlink"
    <3>1. OnProduct(r) /\ product'[P(r)] # None
      BY <1>0, <1>1, <1>4, <2>2 DEF Placed
    <3> QED
      BY <1>7, <2>2, <3>1
         DEF Placed, Fresh, CopyUploaded, Saving, SavingFile, WithFile, WithReview
  <2>3. CASE req[r].op = "avatar" /\ label = "diff"
    <3>1. ~OnProduct(r) /\ F(r) \in objects
      BY <1>0, <1>1, <2>3 DEF CopyUploaded, SavingFile
    <3>2. Placed(r)' /\ CopyUploaded(r)'
      BY <1>4, <1>7, <1>8, <2>3, <3>1
         DEF Placed, CopyUploaded, Saving, SavingFile, WithFile, WithReview
    <3>3. \A c \in Columns.user \ (Named(r) \cup stale[r]) : mem[r][c] = user[U(r)][c]
      BY <1>0, <2>3 DEF Fresh
    <3>4. Fresh(r)'
      BY <1>4, <1>7, <1>8, <2>3, <3>1, <3>3 DEF Fresh, Saving, SavingFile, WithFile
    <3> QED
      BY <3>2, <3>4
  <2> QED
    BY <1>5, <2>1, <2>2, <2>3
<1> QED
  BY <1>4, <1>7, <1>9, <1>10, <1>11, <1>12, <1>13, <1>14, <1>15, MoveKeeps

\* A step that writes products and users only, and ends the request.
LEMMA RowStep ==
  ASSUME KIInv, Track, TablesGrow, UNCHANGED <<file, reviews, lastId, objects, locals, req>>,
         NEW r \in Requests, pc[r] \in {"unlink", "write"}, Goto(r, "answered"),
         RowsUploaded', MainsLinked'
  PROVE  KIInv'
<1>0. KTypeOK
  BY DEF KIInv
<1>1. pc'[r] = "answered" /\ \A s \in Requests \ {r} : pc'[s] = pc[s]
  BY MoverKeeps
<1>2. mem' = mem /\ memFile' = memFile /\ dirty' = dirty
  BY DEF locals
<1>3. KTypeOK'
  <2>1. pc' \in [Requests -> KLabels]
    BY <1>0 DEF KTypeOK, Goto, KLabels, Done
  <2> QED
    BY <1>0, <1>2, <2>1, StaleGrows DEF KTypeOK, TablesGrow
<1>4. ReviewIds'
  <2>1. \A s \in Requests : pc'[s] \in WithReview => pc[s] \in WithReview /\ mem'[s] = mem[s]
    BY <1>1, <1>2 DEF WithReview
  <2> QED
    BY <2>1, ReviewsStay
<1>5. Placed(r)' /\ Fresh(r)' /\ CopyUploaded(r)'
  BY <1>1, NothingHeld DEF Done
<1> QED
  BY <1>1, <1>2, <1>3, <1>4, <1>5, MoveKeeps

\* removeImage clears the main image if it is the removed file.
LEMMA UnlinkKeeps ==
  ASSUME KIInv, Track, UNCHANGED req, NEW r \in Requests, Unlink(r)
  PROVE  KIInv'
<1>0. /\ KTypeOK /\ RowsUploaded /\ MainsLinked /\ Placed(r)
      /\ pc[r] = "unlink" /\ req[r].op = "removeImage"
  BY DEF KIInv, Unlink, Placed
<1>1. P(r) \in Products /\ F(r) \in Files /\ product[P(r)] # None
  BY <1>0, BodyFacts DEF ProductOps, OnProduct, Placed, Begun, Done
<1> DEFINE new == [product[P(r)] EXCEPT !.main = IF @ = F(r) THEN None ELSE @]
<1>2. product[P(r)] \in ProductRow
  BY <1>0, <1>1 DEF KTypeOK
<1>3. /\ new \in ProductRow /\ new # None
      /\ new.main = IF product[P(r)].main = F(r) THEN None ELSE product[P(r)].main
  BY <1>2, CatalogueAssumption DEF ProductRow
<1>4. /\ product' = [product EXCEPT ![P(r)] = new] /\ Goto(r, "answered")
      /\ UNCHANGED <<file, user, reviews, lastId, objects, locals>>
  BY DEF Unlink
<1> HIDE DEF new
<1>5. product'[P(r)] = new /\ \A p \in Products \ {P(r)} : product'[p] = product[p]
  BY <1>0, <1>1, <1>4 DEF KTypeOK
<1>6. TablesGrow
  BY <1>0, <1>3, <1>4, <1>5 DEF KTypeOK, TablesGrow
<1>7. RowsUploaded'
  <2>1. new.main \in objects \cup {None}
    BY <1>0, <1>1, <1>3 DEF RowsUploaded
  <2>2. \A p \in Products : product'[p] # None => product'[p].main \in objects' \cup {None}
    BY <1>0, <1>4, <1>5, <2>1 DEF RowsUploaded
  <2> QED
    BY <1>0, <1>4, <2>2 DEF RowsUploaded, Downloadable
<1>8. MainsLinked'
  <2> SUFFICES ASSUME NEW p \in Products, NEW f \in Files, product'[p] # None, product'[p].main = f,
                      file[f].entity # p, ~Overtaken'
               PROVE  RemovalUnderWay(p, f)'
    BY <1>4 DEF MainsLinked
  <2>1. f # None /\ ~Overtaken
    BY CatalogueAssumption, StaleGrows
  <2>2. product[p] # None /\ product[p].main = f /\ (p # P(r) \/ f # F(r))
    BY <1>1, <1>3, <1>5, <2>1
  <2>3. RemovalUnderWay(p, f)
    BY <1>0, <2>1, <2>2 DEF MainsLinked
  <2>4. PICK s \in Requests : /\ req[s].op = "removeImage" /\ P(s) = p /\ F(s) = f
                              /\ pc[s] \in {"unlink", "failed"}
    BY <2>3 DEF RemovalUnderWay
  <2>5. pc'[s] = pc[s]
    BY <1>0, <1>4, <2>2, <2>4, MoverKeeps
  <2> QED
    BY <2>4, <2>5 DEF RemovalUnderWay, P, F
<1> QED
  BY <1>0, <1>4, <1>6, <1>7, <1>8, RowStep

\* save(product): the main image it leaves is the row's or an image of the
\* product, unless the request was overtaken.
LEMMA WriteProductKeeps ==
  ASSUME KIInv, Track, UNCHANGED req, NEW r \in Requests, Write(r), OnProduct(r)
  PROVE  KIInv'
<1>0. /\ KTypeOK /\ RowsUploaded /\ MainsLinked /\ Placed(r) /\ Fresh(r) /\ CopyUploaded(r)
      /\ pc[r] = "write" /\ req[r].op \in {"patch", "setMain"}
      /\ mem[r] \in ProductRow /\ product[P(r)] # None
  BY DEF KIInv, Write, Placed, Saving, Begun, Done, OnProduct, ProductOps
<1>1. P(r) \in Products
  BY <1>0, BodyFacts DEF ProductOps
<1> DEFINE new == Merge(mem[r], product[P(r)], dirty[r])
<1>2. product[P(r)] \in ProductRow
  BY <1>0, <1>1 DEF KTypeOK
<1>3. /\ new \in ProductRow /\ new # None
      /\ new.main = IF "main" \in dirty[r] THEN mem[r].main ELSE product[P(r)].main
  BY <1>0, <1>2, MergeProduct, CatalogueAssumption DEF Columns
<1>4. /\ product' = [product EXCEPT ![P(r)] = new] /\ Goto(r, "answered")
      /\ UNCHANGED <<file, user, reviews, lastId, objects, locals>>
  BY DEF Write
<1> HIDE DEF new
<1>5. product'[P(r)] = new /\ \A p \in Products \ {P(r)} : product'[p] = product[p]
  BY <1>0, <1>1, <1>4 DEF KTypeOK
<1>6. TablesGrow
  BY <1>0, <1>3, <1>4, <1>5 DEF KTypeOK, TablesGrow
<1>7. RowsUploaded'
  <2>1. new.main \in objects \cup {None}
    BY <1>0, <1>1, <1>3 DEF RowsUploaded, CopyUploaded, Saving
  <2>2. \A p \in Products : product'[p] # None => product'[p].main \in objects' \cup {None}
    BY <1>0, <1>4, <1>5, <2>1 DEF RowsUploaded
  <2> QED
    BY <1>0, <1>4, <2>2 DEF RowsUploaded, Downloadable
<1>8. MainsLinked'
  <2> SUFFICES ASSUME NEW p \in Products, NEW f \in Files, product'[p] # None, product'[p].main = f,
                      file[f].entity # p, ~Overtaken'
               PROVE  RemovalUnderWay(p, f)'
    BY <1>4 DEF MainsLinked
  <2>1. ~Overtaken /\ stale[r] = {}
    <3>1. ~Overtaken
      BY StaleGrows
    <3> QED
      BY <3>1 DEF Overtaken
  <2>2. req[r].op = "patch" => mem[r].main = product[P(r)].main
    <3>1. req[r].op = "patch" => "main" \in Columns.product \ (Named(r) \cup stale[r])
      BY <1>0, <2>1, BodyFacts DEF Named, Columns
    <3> QED
      BY <1>0, <3>1 DEF Fresh, Saving
  <2>3. req[r].op = "setMain" => mem[r].main = F(r) /\ file[F(r)].entity = P(r)
    BY <1>0, <2>1 DEF Fresh, CopyUploaded, Saving
  <2>4. product[p] # None /\ product[p].main = f
    <3>1. CASE p = P(r)
      BY <1>0, <1>3, <1>5, <2>2, <2>3, <3>1
    <3>2. CASE p # P(r)
      BY <1>5, <3>2
    <3> QED
      BY <3>1, <3>2
  <2>5. RemovalUnderWay(p, f)
    BY <1>0, <2>1, <2>4 DEF MainsLinked
  <2>6. \A s \in Requests \ {r} : pc'[s] = pc[s]
    BY <1>0, <1>4, MoverKeeps
  <2> QED
    BY <1>0, <2>5, <2>6, RemovalStays
<1> QED
  BY <1>0, <1>4, <1>6, <1>7, <1>8, RowStep

\* save(user).
LEMMA WriteUserKeeps ==
  ASSUME KIInv, Track, UNCHANGED req, NEW r \in Requests, Write(r), ~OnProduct(r)
  PROVE  KIInv'
<1>0. /\ KTypeOK /\ RowsUploaded /\ MainsLinked /\ Placed(r) /\ CopyUploaded(r)
      /\ pc[r] = "write" /\ req[r].op \in {"avatar", "profile"} /\ mem[r] \in UserRow /\ Begun(r)
  BY DEF KIInv, Write, Placed, Saving, Begun, Done, OnProduct, ProductOps
<1>1. U(r) \in Users /\ user[U(r)] \in UserRow
  BY <1>0, BodyFacts DEF UserOps, KTypeOK
<1> DEFINE new == Merge(mem[r], user[U(r)], dirty[r])
<1>2. /\ new \in UserRow
      /\ new.avatar = IF "avatar" \in dirty[r] THEN mem[r].avatar ELSE user[U(r)].avatar
  BY <1>0, <1>1, MergeUser DEF Columns
<1>3. /\ user' = [user EXCEPT ![U(r)] = new] /\ Goto(r, "answered")
      /\ UNCHANGED <<product, file, reviews, lastId, objects, locals>>
  BY DEF Write
<1> HIDE DEF new
<1>4. user'[U(r)] = new /\ \A u \in Users \ {U(r)} : user'[u] = user[u]
  BY <1>0, <1>1, <1>3 DEF KTypeOK
<1>5. TablesGrow
  BY <1>0, <1>2, <1>3, <1>4 DEF KTypeOK, TablesGrow
<1>6. RowsUploaded'
  <2>1. new.avatar \in objects \cup {None}
    BY <1>0, <1>1, <1>2 DEF RowsUploaded, CopyUploaded
  <2>2. \A u \in Users : user'[u].avatar \in objects' \cup {None}
    BY <1>0, <1>3, <1>4, <2>1 DEF RowsUploaded
  <2> QED
    BY <1>0, <1>3, <2>2 DEF RowsUploaded, Downloadable
<1>7. MainsLinked'
  <2>1. \A s \in Requests \ {r} : pc'[s] = pc[s]
    BY <1>0, <1>3, MoverKeeps
  <2>2. \A p \in Products, f \in Files : RemovalUnderWay(p, f) => RemovalUnderWay(p, f)'
    BY <1>0, <2>1, RemovalStays
  <2> QED
    BY <1>0, <1>3, <2>2, StaleGrows DEF MainsLinked
<1> QED
  BY <1>0, <1>3, <1>5, <1>6, <1>7, RowStep

-----------------------------------------------------------------------------
(* Single statements *)

\* A statement moves no request.
LEMMA StatementStep ==
  ASSUME KIInv, Track, TablesGrow, UNCHANGED <<reviews, lastId, pc, locals, req>>,
         objects' \subseteq Files, RowsUploaded',
         \A p \in Products, f \in Files :
           product'[p] # None /\ product'[p].main = f /\ file'[f].entity # p =>
             product[p] # None /\ product[p].main = f /\ file[f].entity # p
  PROVE  KIInv'
<1>0. KTypeOK /\ MainsLinked
  BY DEF KIInv
<1>1. mem' = mem /\ memFile' = memFile /\ dirty' = dirty
  BY DEF locals
<1>2. KTypeOK'
  BY <1>0, <1>1, StaleGrows DEF KTypeOK, TablesGrow
<1>3. ReviewIds'
  BY <1>1, ReviewsStay
<1>4. MainsLinked'
  <2>1. \A p \in Products, f \in Files : RemovalUnderWay(p, f) => RemovalUnderWay(p, f)'
    BY DEF RemovalUnderWay, P, F
  <2> QED
    BY <1>0, <2>1, StaleGrows DEF MainsLinked
<1>5. \A s \in Requests : Placed(s)' /\ Fresh(s)' /\ CopyUploaded(s)'
  BY <1>1, OthersKeep
<1> QED
  BY <1>2, <1>3, <1>4, <1>5 DEF KIInv

\* Records of files, and their bytes: a record that is not there yet is no
\* product's main image.
LEMMA FileStatementKeeps ==
  ASSUME KIInv, Track, UNCHANGED req, NEW f \in Files,
         \/ \E u \in Users, e \in Products \cup {None} : CreatePresignedUpload(u, f, e)
         \/ PutObject(f)
  PROVE  KIInv'
<1>0. KTypeOK /\ RowsUploaded /\ objects \subseteq Files
  BY DEF KIInv, KTypeOK
<1>1. CASE \E u \in Users, e \in Products \cup {None} : CreatePresignedUpload(u, f, e)
  <2>1. PICK u \in Users, e \in Products \cup {None} : CreatePresignedUpload(u, f, e)
    BY <1>1
  <2> DEFINE new == [owner |-> u, status |-> "PENDING", entity |-> e]
  <2>2. new \in FileRow /\ new # None /\ new.status = "PENDING"
    BY CatalogueAssumption DEF FileRow
  <2>3. /\ file[f] = None /\ file' = [file EXCEPT ![f] = new]
        /\ UNCHANGED <<product, user, reviews, lastId, objects, pc, locals>>
    BY <2>1 DEF CreatePresignedUpload
  <2> HIDE DEF new
  <2>4. file'[f] = new /\ \A g \in Files \ {f} : file'[g] = file[g]
    BY <1>0, <2>3 DEF KTypeOK
  <2>5. TablesGrow
    BY <1>0, <2>2, <2>3, <2>4 DEF KTypeOK, TablesGrow
  <2>6. RowsUploaded'
    <3>1. \A g \in objects' : file'[g] # None
      BY <1>0, <2>2, <2>3, <2>4 DEF RowsUploaded
    <3>2. \A g \in Files : Downloadable(g)' => g \in objects'
      BY <1>0, <2>2, <2>3, <2>4 DEF RowsUploaded, Downloadable
    <3> QED
      BY <1>0, <2>3, <3>1, <3>2 DEF RowsUploaded
  <2>7. \A p \in Products : product[p] # None => product[p].main # f
    BY <1>0, <2>3, CatalogueAssumption DEF RowsUploaded
  <2>8. \A p \in Products, g \in Files :
          product'[p] # None /\ product'[p].main = g /\ file'[g].entity # p =>
            product[p] # None /\ product[p].main = g /\ file[g].entity # p
    BY <2>3, <2>4, <2>7
  <2> QED
    BY <1>0, <2>3, <2>5, <2>6, <2>8, StatementStep
<1>2. CASE PutObject(f)
  <2>1. /\ file[f] # None /\ objects' = objects \cup {f}
        /\ UNCHANGED <<product, file, user, reviews, lastId, pc, locals>>
    BY <1>2 DEF PutObject
  <2>2. TablesGrow
    BY <1>0, <2>1 DEF KTypeOK, TablesGrow
  <2>3. RowsUploaded'
    BY <1>0, <2>1 DEF RowsUploaded, Downloadable
  <2> QED
    BY <1>0, <2>1, <2>2, <2>3, StatementStep
<1> QED
  BY <1>1, <1>2

\* Products created, removed and sold keep their main image.
LEMMA ProductStatementKeeps ==
  ASSUME KIInv, Track, UNCHANGED req, NEW p \in Products,
         CreateProduct(p) \/ RemoveProduct(p) \/ SellProduct(p)
  PROVE  KIInv'
<1>0. KTypeOK /\ RowsUploaded /\ objects \subseteq Files
  BY DEF KIInv, KTypeOK
<1>1. PICK new \in ProductRow :
        /\ product' = [product EXCEPT ![p] = new]
        /\ new.main = None \/ (product[p] # None /\ new.main = product[p].main)
  <2>1. CASE CreateProduct(p)
    <3> DEFINE new == [stock |-> 0, active |-> TRUE, main |-> None, gone |-> FALSE]
    <3>1. 0 \in 0..MaxStock
      BY CatalogueAssumption
    <3>2. new \in ProductRow /\ new.main = None
      BY <3>1 DEF ProductRow
    <3> QED
      BY <2>1, <3>2 DEF CreateProduct
  <2>2. CASE RemoveProduct(p)
    <3> DEFINE new == [product[p] EXCEPT !.gone = TRUE]
    <3>1. product[p] \in ProductRow /\ product[p] # None
      BY <1>0, <2>2 DEF RemoveProduct, Live, KTypeOK
    <3>2. new \in ProductRow /\ new.main = product[p].main
      BY <3>1 DEF ProductRow
    <3>3. product' = [product EXCEPT ![p] = new]
      BY <2>2 DEF RemoveProduct
    <3> QED
      BY <3>1, <3>2, <3>3
  <2>3. CASE SellProduct(p)
    <3> DEFINE new == [product[p] EXCEPT !.stock = @ - 1]
    <3>1. product[p] \in ProductRow /\ product[p] # None /\ product[p].stock > 0
      BY <1>0, <2>3 DEF SellProduct, Live, KTypeOK
    <3>2. product[p].stock \in 0..MaxStock
      BY <3>1 DEF ProductRow
    <3>3. product[p].stock - 1 \in 0..MaxStock
      BY <3>1, <3>2, CatalogueAssumption
    <3>4. new \in ProductRow /\ new.main = product[p].main
      BY <3>1, <3>3 DEF ProductRow
    <3>5. product' = [product EXCEPT ![p] = new]
      BY <2>3 DEF SellProduct
    <3> QED
      BY <3>1, <3>4, <3>5
  <2> QED
    BY <2>1, <2>2, <2>3
<1>2. UNCHANGED <<file, user, reviews, lastId, objects, pc, locals>>
  BY DEF CreateProduct, RemoveProduct, SellProduct
<1>3. /\ product'[p] = new /\ new # None
      /\ \A q \in Products \ {p} : product'[q] = product[q]
  BY <1>0, <1>1, CatalogueAssumption DEF KTypeOK
<1>4. TablesGrow
  BY <1>0, <1>1, <1>2, <1>3 DEF KTypeOK, TablesGrow
<1>5. RowsUploaded'
  <2>1. \A q \in Products : product'[q] # None => product'[q].main \in objects' \cup {None}
    BY <1>0, <1>1, <1>2, <1>3 DEF RowsUploaded
  <2> QED
    BY <1>0, <1>2, <2>1 DEF RowsUploaded, Downloadable
<1>6. \A q \in Products, f \in Files :
        product'[q] # None /\ product'[q].main = f /\ file'[f].entity # q =>
          product[q] # None /\ product[q].main = f /\ file[f].entity # q
  BY <1>1, <1>2, <1>3, CatalogueAssumption
<1> QED
  BY <1>0, <1>2, <1>4, <1>5, <1>6, StatementStep

\* Single columns of a user.
LEMMA UpdateUserKeeps ==
  ASSUME KIInv, Track, UNCHANGED req, NEW u \in Users, UpdateUser(u)
  PROVE  KIInv'
<1>0. KTypeOK /\ RowsUploaded /\ objects \subseteq Files /\ user[u] \in UserRow
  BY DEF KIInv, KTypeOK
<1>1. PICK new \in UserRow : /\ user' = [user EXCEPT ![u] = new]
                             /\ new.avatar \in {None, user[u].avatar}
  <2>1. CASE user' = [user EXCEPT ![u].role = "admin"]
    <3>1. [user[u] EXCEPT !.role = "admin"] \in UserRow
          /\ [user[u] EXCEPT !.role = "admin"].avatar = user[u].avatar
      BY <1>0 DEF UserRow
    <3> QED
      BY <2>1, <3>1
  <2>2. CASE user' = [user EXCEPT ![u].avatar = None]
    <3>1. [user[u] EXCEPT !.avatar = None] \in UserRow
          /\ [user[u] EXCEPT !.avatar = None].avatar = None
      BY <1>0 DEF UserRow
    <3> QED
      BY <2>2, <3>1
  <2>3. CASE user' = [user EXCEPT ![u].deleted = TRUE]
    <3>1. [user[u] EXCEPT !.deleted = TRUE] \in UserRow
          /\ [user[u] EXCEPT !.deleted = TRUE].avatar = user[u].avatar
      BY <1>0 DEF UserRow
    <3> QED
      BY <2>3, <3>1
  <2> QED
    BY <2>1, <2>2, <2>3 DEF UpdateUser
<1>2. UNCHANGED <<product, file, reviews, lastId, objects, pc, locals>>
  BY DEF UpdateUser
<1>3. user'[u] = new /\ \A w \in Users \ {u} : user'[w] = user[w]
  BY <1>0, <1>1 DEF KTypeOK
<1>4. TablesGrow
  BY <1>0, <1>1, <1>2, <1>3 DEF KTypeOK, TablesGrow
<1>5. RowsUploaded'
  <2>1. \A w \in Users : user'[w].avatar \in objects' \cup {None}
    BY <1>0, <1>1, <1>2, <1>3 DEF RowsUploaded
  <2> QED
    BY <1>0, <1>2, <2>1 DEF RowsUploaded, Downloadable
<1> QED
  BY <1>0, <1>2, <1>4, <1>5, StatementStep

-----------------------------------------------------------------------------
(* The theorems *)

LEMMA KIInvInit ==
  ASSUME KInit, req \in [Requests -> Bodies]
  PROVE  KIInv
<1>1. KTypeOK
  <2>1. reviews \subseteq AnyReview /\ lastId \in Nat
    BY DEF KInit, ReviewRow, AnyReview
  <2>2. user \in [Users -> UserRow] /\ product \in [Products -> ProductRow \cup {None}]
    BY DEF KInit
  <2>3. pc \in [Requests -> KLabels]
    BY DEF KInit, KLabels, Done
  <2>4. /\ file \in [Files -> FileRow \cup {None}] /\ objects \subseteq Files
        /\ mem \in [Requests -> ProductRow \cup UserRow \cup AnyReview \cup {None}]
        /\ memFile \in [Requests -> FileRow \cup {None}]
        /\ DOMAIN dirty = Requests /\ DOMAIN stale = Requests
    BY DEF KInit
  <2> QED
    BY <2>1, <2>2, <2>3, <2>4 DEF KTypeOK
<1>2. RowsUploaded
  <2>1. \A f \in objects : file[f] # None
    BY DEF KInit
  <2>2. \A f \in Files : Downloadable(f) => f \in objects
    BY DEF KInit, Downloadable
  <2>3. \A p \in Products : product[p] # None => product[p].main \in objects \cup {None}
    <3>1. \A p \in Products : product[p] # None => product[p].main \in Files \cup {None}
      BY <1>1 DEF KTypeOK, ProductRow
    <3> QED
      BY <3>1 DEF KInit
  <2>4. \A u \in Users : user[u].avatar \in objects \cup {None}
    BY DEF KInit
  <2> QED
    BY <2>1, <2>2, <2>3, <2>4 DEF RowsUploaded
<1>3. \A r \in Requests : pc[r] \in {"new", "answered"} /\ stale[r] = {}
  BY DEF KInit
<1>4. ReviewIds
  <2>1. \A v, w \in reviews : v = w
    BY DEF KInit
  <2>2. \A v \in reviews : v.id = 1 /\ lastId = 1
    BY DEF KInit, ReviewRow
  <2>3. \A r \in Requests : pc[r] \notin WithReview
    BY <1>3 DEF WithReview
  <2> QED
    BY <2>1, <2>2, <2>3 DEF ReviewIds, OneReviewPerUser
<1>5. MainsLinked
  BY CatalogueAssumption DEF KInit, MainsLinked
<1>6. ASSUME NEW r \in Requests
      PROVE  Placed(r) /\ Fresh(r) /\ CopyUploaded(r)
  <2>1. ~Begun(r) /\ pc[r] \notin Saving \cup WithFile \cup SavingFile \cup WithReview
                      \cup {"file", "reload", "head", "unlink", "find", "insertReview"}
    BY <1>3 DEF Begun, Done, Saving, WithFile, SavingFile, WithReview
  <2> QED
    BY <2>1 DEF Placed, Fresh, CopyUploaded
<1> QED
  BY <1>1, <1>2, <1>4, <1>5, <1>6 DEF KIInv

LEMMA KIInvNext ==
  ASSUME KIInv, Next
  PROVE  KIInv'
<1>0. Track /\ UNCHANGED req
  BY DEF Next
<1>1. ASSUME NEW r \in Requests, RequestStep(r)
      PROVE  KIInv'
  <2>1. CASE FindProduct(r)
    BY <1>0, <2>1, FindProductKeeps
  <2>2. CASE FindUser(r)
    BY <1>0, <2>2, FindUserKeeps
  <2>3. CASE FileForAdd(r) \/ FileForRemove(r)
    BY <1>0, <2>3, FileLinkKeeps
  <2>4. CASE FileForMain(r)
    BY <1>0, <2>4, FileForMainKeeps
  <2>5. CASE ReloadProduct(r)
    BY <1>0, <2>5, ReloadProductKeeps
  <2>6. CASE FileForUser(r)
    BY <1>0, <2>6, FileForUserKeeps
  <2>7. CASE HeadObject(r)
    BY <1>0, <2>7, HeadObjectKeeps
  <2>8. CASE DiffFile(r) \/ Diff(r)
    BY <1>0, <2>8, DiffKeeps
  <2>9. CASE WriteFile(r)
    BY <1>0, <2>9, WriteFileKeeps
  <2>10. CASE Unlink(r)
    BY <1>0, <2>10, UnlinkKeeps
  <2>11. CASE Write(r)
    BY <1>0, <2>11, WriteProductKeeps, WriteUserKeeps
  <2>12. CASE FindReview(r)
    BY <1>0, <2>12, FindReviewKeeps
  <2>13. CASE InsertReview(r)
    BY <1>0, <2>13, InsertReviewKeeps
  <2>14. CASE DiffReview(r)
    BY <1>0, <2>14, DiffReviewKeeps
  <2>15. CASE UpdateReview(r) \/ ReinsertReview(r) \/ DeleteReview(r)
    BY <1>0, <2>15, SaveReviewKeeps
  <2> QED
    BY <1>1, <2>1, <2>2, <2>3, <2>4, <2>5, <2>6, <2>7, <2>8, <2>9, <2>10, <2>11, <2>12, <2>13,
       <2>14, <2>15 DEF RequestStep
<1>2. ASSUME NEW r \in Requests, Fails(r)
      PROVE  KIInv'
  BY <1>0, <1>2, FailsKeeps
<1>3. ASSUME Statement
      PROVE  KIInv'
  <2>1. CASE \E u \in Users, f \in Files, e \in Products \cup {None} : CreatePresignedUpload(u, f, e)
    BY <1>0, <2>1, FileStatementKeeps
  <2>2. CASE \E f \in Files : PutObject(f)
    BY <1>0, <2>2, FileStatementKeeps
  <2>3. CASE \E p \in Products : CreateProduct(p) \/ RemoveProduct(p) \/ SellProduct(p)
    BY <1>0, <2>3, ProductStatementKeeps
  <2>4. CASE \E u \in Users : UpdateUser(u)
    BY <1>0, <2>4, UpdateUserKeeps
  <2> QED
    BY <1>3, <2>1, <2>2, <2>3, <2>4 DEF Statement
<1> QED
  BY <1>1, <1>2, <1>3 DEF Next

\* A stuttering step changes nothing the invariant speaks of.
LEMMA KIInvStutter ==
  ASSUME KIInv, UNCHANGED kvars
  PROVE  KIInv'
<1>1. /\ product' = product /\ file' = file /\ user' = user /\ reviews' = reviews
      /\ lastId' = lastId /\ objects' = objects /\ pc' = pc /\ req' = req /\ mem' = mem
      /\ memFile' = memFile /\ dirty' = dirty /\ stale' = stale
  BY DEF kvars, tables, locals
<1>2. KTypeOK' /\ RowsUploaded'
  BY <1>1 DEF KIInv, KTypeOK, RowsUploaded, Downloadable
<1>3. ReviewIds'
  BY <1>1, ReviewsStay
<1>4. MainsLinked'
  BY <1>1 DEF KIInv, MainsLinked, RemovalUnderWay, Overtaken, P, F
<1>5. ASSUME NEW r \in Requests
      PROVE  Placed(r)' /\ Fresh(r)' /\ CopyUploaded(r)'
  <2>1. /\ P(r)' = P(r) /\ F(r)' = F(r) /\ U(r)' = U(r) /\ OnProduct(r)' = OnProduct(r)
        /\ Named(r)' = Named(r) /\ NamedFile(r)' = NamedFile(r) /\ Begun(r)' = Begun(r)
    BY <1>1 DEF P, F, U, OnProduct, Named, NamedFile, Begun
  <2>2. Placed(r) /\ Fresh(r) /\ CopyUploaded(r)
    BY DEF KIInv
  <2> QED
    BY <1>1, <2>1, <2>2 DEF Placed, Fresh, CopyUploaded
<1> QED
  BY <1>2, <1>3, <1>4, <1>5 DEF KIInv

\* Types, uploaded bytes behind what is shown, review ids, linked main images
\* and, for every request, what its copies in memory are worth (the services
\* of products, files, users and reviews, under any interleaving).
THEOREM KIInvIsInvariant == KSpec => []KIInv
<1>1. KInit /\ req \in [Requests -> Bodies] => KIInv
  BY KIInvInit
<1>2. KIInv /\ [Next]_kvars => KIInv'
  BY KIInvNext, KIInvStutter
<1> QED
  BY <1>1, <1>2, PTL DEF KSpec

\* However many creations, updates and deletions race, a user has one review
\* of a product (createReview, updateReview, deleteReview).
THEOREM OneReview == KSpec => []OneReviewPerUser
<1>1. KIInv => OneReviewPerUser
  BY DEF KIInv, ReviewIds
<1> QED
  BY <1>1, KIInvIsInvariant, PTL

\* What a product or a user shows is in the bucket, whichever stale saves race,
\* and a link to missing bytes is the owner's to a record still PENDING
\* (setMainImage, setAvatar, completeUpload, getFileUrl, getFileById).
THEOREM ImagesShownExist == KSpec => []ShownImagesExist
<1>1. KIInv => ShownImagesExist
  <2> SUFFICES ASSUME KIInv, NEW f \in Files \ objects
               PROVE  /\ \A p \in Products : product[p] # None => product[p].main # f
                      /\ \A u \in Users :
                           /\ user[u].avatar # f
                           /\ LinkGiven(u, f) => file[f].owner = u /\ file[f].status = "PENDING"
    BY DEF ShownImagesExist
  <2>1. f # None /\ RowsUploaded /\ file \in [Files -> FileRow \cup {None}]
    BY CatalogueAssumption DEF KIInv, KTypeOK
  <2>2. ~Downloadable(f)
    BY <2>1 DEF RowsUploaded
  <2>3. file[f] # None => file[f].status = "PENDING"
    BY <2>1, <2>2 DEF Downloadable, FileRow
  <2>4. \A u \in Users : LinkGiven(u, f) => file[f].owner = u /\ file[f].status = "PENDING"
    BY <2>2, <2>3 DEF LinkGiven, ImagesOf, MainImageOf, AvatarOf, OwnedBy
  <2> QED
    BY <2>1, <2>4 DEF RowsUploaded
<1> QED
  BY <1>1, KIInvIsInvariant, PTL

\* A main image that is no image of its product needs a removal stopped
\* half-way or a request overtaken by another (removeImage, setMainImage).
THEOREM DanglingNeedsRace == KSpec => []DanglingMainNeedsRace
<1>1. KIInv => DanglingMainNeedsRace
  <2> SUFFICES ASSUME KIInv, NEW p \in Products, product[p] # None, product[p].main # None,
                      file[product[p].main].entity # p
               PROVE  \/ \E r \in Requests : req[r].op = "removeImage" /\ pc[r] \in {"unlink", "failed"}
                      \/ \E r \in Requests : stale[r] # {}
    BY DEF DanglingMainNeedsRace
  <2>1. product[p].main \in Files
    BY DEF KIInv, KTypeOK, ProductRow
  <2>2. RemovalUnderWay(p, product[p].main) \/ Overtaken
    BY <2>1 DEF KIInv, MainsLinked
  <2> QED
    BY <2>2 DEF RemovalUnderWay, Overtaken
<1> QED
  BY <1>1, KIInvIsInvariant, PTL

\* Only the request that takes a step changes place.
LEMMA OneMoves ==
  ASSUME KIInv, NEW q \in Requests, RequestStep(q) \/ Fails(q)
  PROVE  \A s \in Requests \ {q} : pc'[s] = pc[s]
<1>0. pc \in [Requests -> KLabels]
  BY DEF KIInv, KTypeOK
<1>1. \E label : Goto(q, label)
  <2>1. CASE FindProduct(q) \/ FindUser(q) \/ Fails(q)
    BY <2>1 DEF FindProduct, FindUser, Fails, Go, Keep
  <2>2. CASE FileForAdd(q) \/ FileForRemove(q) \/ FileForMain(q) \/ FileForUser(q)
    BY <2>2 DEF FileForAdd, FileForRemove, FileForMain, FileForUser, Go, KeepFile
  <2>3. CASE ReloadProduct(q) \/ HeadObject(q)
    BY <2>3 DEF ReloadProduct, HeadObject, Go, Keep, KeepFile
  <2>4. CASE DiffFile(q) \/ WriteFile(q) \/ Unlink(q) \/ Diff(q) \/ Write(q)
    BY <2>4 DEF DiffFile, WriteFile, Unlink, Diff, Write
  <2>5. CASE FindReview(q) \/ DiffReview(q)
    BY <2>5 DEF FindReview, DiffReview, Go, Keep
  <2>6. CASE InsertReview(q) \/ UpdateReview(q) \/ ReinsertReview(q) \/ DeleteReview(q)
    BY <2>6 DEF InsertReview, UpdateReview, ReinsertReview, DeleteReview, PutReviews, Go
  <2> QED
    BY <2>1, <2>2, <2>3, <2>4, <2>5, <2>6 DEF RequestStep
<1> QED
  BY <1>0, <1>1 DEF Goto

\* A save changes only the columns its request names or somebody changed
\* after the request began (update, associateMainImage, setAvatar,
\* updateProfile).
THEOREM SavesOverwriteOnlyRaces == KSpec => OnlyRacesOverwrite
<1> DEFINE Saves == \A r \in Requests : pc[r] = "write" /\ pc'[r] = "answered" =>
                      Moved(MainRow(r), MainRow(r)') \subseteq Named(r) \cup stale[r]
<1>1. KIInv /\ [Next]_kvars => Saves
  <2> SUFFICES ASSUME KIInv, [Next]_kvars, NEW r \in Requests, pc[r] = "write", pc'[r] = "answered"
               PROVE  Moved(MainRow(r), MainRow(r)') \subseteq Named(r) \cup stale[r]
    OBVIOUS
  <2>0. KTypeOK /\ Placed(r) /\ Fresh(r)
    BY DEF KIInv
  <2>1. Next
    BY DEF kvars
  <2>2. pc' # pc
    OBVIOUS
  <2>3. ~Statement
    BY <2>2 DEF Statement, CreatePresignedUpload, PutObject, CreateProduct, RemoveProduct,
                SellProduct, UpdateUser
  <2>4. PICK q \in Requests : RequestStep(q) \/ Fails(q)
    BY <2>1, <2>3 DEF Next
  <2>5. q = r
    BY <2>4, OneMoves
  <2>6. ~Fails(r)
    BY <2>0 DEF Fails, Go, Goto, KTypeOK
  <2>7. Write(r)
    <3>1. ~(FindProduct(r) \/ FindUser(r) \/ FileForAdd(r) \/ FileForRemove(r) \/ FileForMain(r)
            \/ ReloadProduct(r) \/ FileForUser(r) \/ HeadObject(r) \/ DiffFile(r) \/ WriteFile(r)
            \/ Unlink(r) \/ Diff(r))
      BY DEF FindProduct, FindUser, FileForAdd, FileForRemove, FileForMain, ReloadProduct,
             FileForUser, HeadObject, DiffFile, WriteFile, Unlink, Diff
    <3>2. ~(FindReview(r) \/ InsertReview(r) \/ DiffReview(r) \/ UpdateReview(r)
            \/ ReinsertReview(r) \/ DeleteReview(r))
      BY DEF FindReview, InsertReview, DiffReview, UpdateReview, ReinsertReview, DeleteReview
    <3> QED
      BY <2>4, <2>5, <2>6, <3>1, <3>2 DEF RequestStep
  <2>8. P(r)' = P(r) /\ U(r)' = U(r) /\ OnProduct(r)' = OnProduct(r)
    BY <2>1 DEF Next, P, U, OnProduct
  <2>9. CASE OnProduct(r)
    <3>1. P(r) \in Products /\ product[P(r)] \in ProductRow /\ mem[r] \in ProductRow
      BY <2>0, <2>9, BodyFacts DEF OnProduct, Placed, Saving, Begun, Done, KTypeOK
    <3>2. MainRow(r) = product[P(r)] /\ MainRow(r)' = Merge(mem[r], product[P(r)], dirty[r])
      BY <2>0, <2>7, <2>8, <2>9, <3>1 DEF Write, MainRow, KTypeOK
    <3>3. \A c \in Columns.product :
            Merge(mem[r], product[P(r)], dirty[r])[c] # product[P(r)][c] => mem[r][c] # product[P(r)][c]
      BY <3>1, MergeProduct
    <3>4. \A c \in Columns.product \ (Named(r) \cup stale[r]) : mem[r][c] = product[P(r)][c]
      BY <2>0, <2>9 DEF Fresh, Saving
    <3>5. DOMAIN product[P(r)] = Columns.product
      BY <3>1, MergeProduct
    <3> QED
      BY <3>2, <3>3, <3>4, <3>5 DEF Moved
  <2>10. CASE ~OnProduct(r)
    <3>0. req[r].op \in {"avatar", "profile"} /\ Begun(r)
      BY <2>0, <2>10 DEF Placed, Saving, OnProduct, ProductOps, Begun, Done
    <3>1. U(r) \in Users /\ user[U(r)] \in UserRow /\ mem[r] \in UserRow
      BY <2>0, <3>0, BodyFacts DEF UserOps, Placed, KTypeOK
    <3>2. MainRow(r) = user[U(r)] /\ MainRow(r)' = Merge(mem[r], user[U(r)], dirty[r])
      BY <2>0, <2>7, <2>8, <2>10, <3>1 DEF Write, MainRow, KTypeOK
    <3>3. \A c \in Columns.user :
            Merge(mem[r], user[U(r)], dirty[r])[c] # user[U(r)][c] => mem[r][c] # user[U(r)][c]
      BY <3>1, MergeUser
    <3>4. \A c \in Columns.user \ (Named(r) \cup stale[r]) : mem[r][c] = user[U(r)][c]
      BY <2>0, <3>0 DEF Fresh
    <3>5. DOMAIN user[U(r)] = Columns.user
      BY <3>1, MergeUser
    <3> QED
      BY <3>2, <3>3, <3>4, <3>5 DEF Moved
  <2> QED
    BY <2>9, <2>10
<1>2. KIInv /\ [Next]_kvars => [Saves]_kvars
  BY <1>1
<1> QED
  BY <1>2, KIInvIsInvariant, PTL DEF KSpec, OnlyRacesOverwrite

-----------------------------------------------------------------------------
(* Listings: the order of a page *)

\* R orders D: the strict order of an ORDER BY with the id as last column.
Orders(R, D) ==
  /\ \A x \in D : <<x, x>> \notin R
  /\ \A x, y, z \in D : <<x, y>> \in R /\ <<y, z>> \in R => <<x, z>> \in R
  /\ \A x, y \in D : x = y \/ <<x, y>> \in R \/ <<y, x>> \in R

InRow(q, n, R) == \A i, j \in 1..n : i < j => <<q[i], q[j]>> \in R

\* The n rows of S have such an order.
HasRow(n, S, R) ==
  \E q \in [1..n -> S] : InRow(q, n, R) /\ \A y \in S : \E i \in 1..n : q[i] = y

\* One row more finds its place.
LEMMA PlaceFound ==
  ASSUME NEW R, NEW D, Orders(R, D), NEW S \in SUBSET D, NEW x \in D \ S, NEW n \in Nat, HasRow(n, S, R)
  PROVE  HasRow(n + 1, S \cup {x}, R)
<1>0. PICK q \in [1..n -> S] : InRow(q, n, R) /\ \A y \in S : \E i \in 1..n : q[i] = y
  BY DEF HasRow
<1> DEFINE After == {k \in 1..(n + 1) : k = n + 1 \/ <<x, q[k]>> \in R}
<1>1. PICK m \in After : \A k \in After : m <= k
  <2>1. After \subseteq Nat /\ n + 1 \in After
    OBVIOUS
  <2> HIDE DEF After
  <2> QED
    BY <2>1, LeastNumber
<1>2. m \in 1..(n + 1)
  OBVIOUS
<1> DEFINE t == [i \in 1..(n + 1) |-> IF i < m THEN q[i] ELSE IF i = m THEN x ELSE q[i - 1]]
<1>3. t \in [1..(n + 1) -> S \cup {x}]
  <2> SUFFICES ASSUME NEW i \in 1..(n + 1) PROVE t[i] \in S \cup {x}
    OBVIOUS
  <2>1. i < m => i \in 1..n
    BY <1>2
  <2>2. i > m => i - 1 \in 1..n
    BY <1>2
  <2> QED
    BY <1>2, <2>1, <2>2
<1>4. \A i \in 1..n : i < m => <<q[i], x>> \in R
  <2> SUFFICES ASSUME NEW i \in 1..n, i < m PROVE <<q[i], x>> \in R
    OBVIOUS
  <2>1. <<x, q[i]>> \notin R
    <3> SUFFICES ASSUME <<x, q[i]>> \in R PROVE FALSE
      OBVIOUS
    <3>1. i \in After
      OBVIOUS
    <3>2. m <= i
      BY <1>1, <3>1
    <3> HIDE DEF After
    <3> QED
      BY <1>2, <3>2
  <2>2. q[i] \in D /\ q[i] # x
    OBVIOUS
  <2> QED
    BY <2>1, <2>2 DEF Orders
<1>5. \A i \in 1..n : i >= m => <<x, q[i]>> \in R
  <2> SUFFICES ASSUME NEW i \in 1..n, i >= m PROVE <<x, q[i]>> \in R
    OBVIOUS
  <2>1. m \in 1..n /\ <<x, q[m]>> \in R
    BY <1>1, <1>2
  <2>2. q[i] \in D /\ q[m] \in D
    BY <2>1
  <2>3. i = m \/ <<q[m], q[i]>> \in R
    BY <1>0, <2>1 DEF InRow
  <2> QED
    BY <2>1, <2>2, <2>3 DEF Orders
<1>6. InRow(t, n + 1, R)
  <2> SUFFICES ASSUME NEW i \in 1..(n + 1), NEW j \in 1..(n + 1), i < j PROVE <<t[i], t[j]>> \in R
    BY DEF InRow
  <2>1. CASE j < m
    <3>1. i \in 1..n /\ j \in 1..n /\ i < m /\ t[i] = q[i] /\ t[j] = q[j]
      BY <1>2, <2>1
    <3> QED
      BY <1>0, <3>1 DEF InRow
  <2>2. CASE j = m
    <3>1. i \in 1..n /\ i < m /\ t[i] = q[i] /\ t[j] = x
      BY <1>2, <2>2
    <3> QED
      BY <1>4, <3>1
  <2>3. CASE j > m
    <3>1. j - 1 \in 1..n /\ j - 1 >= m /\ t[j] = q[j - 1]
      BY <1>2, <2>3
    <3>2. CASE i < m
      <4>1. i \in 1..n /\ i < j - 1 /\ t[i] = q[i]
        BY <1>2, <2>3, <3>2
      <4> QED
        BY <1>0, <3>1, <4>1 DEF InRow
    <3>3. CASE i = m
      BY <1>5, <3>1, <3>3
    <3>4. CASE i > m
      <4>1. i - 1 \in 1..n /\ i - 1 < j - 1 /\ t[i] = q[i - 1]
        BY <1>2, <3>4
      <4> QED
        BY <1>0, <3>1, <4>1 DEF InRow
    <3> QED
      BY <1>2, <3>2, <3>3, <3>4
  <2> QED
    BY <1>2, <2>1, <2>2, <2>3
<1>7. ASSUME NEW y \in S \cup {x} PROVE \E i \in 1..(n + 1) : t[i] = y
  <2>1. CASE y = x
    <3>1. t[m] = x
      BY <1>2
    <3> QED
      BY <1>2, <2>1, <3>1
  <2>2. CASE y \in S
    <3>1. PICK i \in 1..n : q[i] = y
      BY <1>0, <2>2
    <3>2. CASE i < m
      <4>1. i \in 1..(n + 1) /\ t[i] = q[i]
        BY <3>2
      <4> QED
        BY <3>1, <4>1
    <3>3. CASE i >= m
      <4>1. i + 1 \in 1..(n + 1) /\ t[i + 1] = q[i]
        BY <1>2, <3>3
      <4> QED
        BY <3>1, <4>1
    <3> QED
      BY <1>2, <3>2, <3>3
  <2> QED
    BY <2>1, <2>2
<1> HIDE DEF t
<1> QED
  BY <1>3, <1>6, <1>7 DEF HasRow

\* A finite set of rows can be put in a row.
LEMMA RowExists ==
  ASSUME NEW R, NEW D, Orders(R, D), NEW S \in SUBSET D, IsFiniteSet(S)
  PROVE  Cardinality(S) \in Nat /\ HasRow(Cardinality(S), S, R)
<1> DEFINE Bad == {n \in Nat : \E T \in SUBSET D :
                     IsFiniteSet(T) /\ Cardinality(T) = n /\ ~HasRow(n, T, R)}
<1>1. Bad = {}
  <2> SUFFICES ASSUME Bad # {} PROVE FALSE
    OBVIOUS
  <2>1. PICK n \in Bad : \A k \in Bad : n <= k
    <3>1. Bad \subseteq Nat
      OBVIOUS
    <3> HIDE DEF Bad
    <3> QED
      BY <3>1, LeastNumber
  <2>2. n \in Nat
    OBVIOUS
  <2>3. PICK T \in SUBSET D : IsFiniteSet(T) /\ Cardinality(T) = n /\ ~HasRow(n, T, R)
    OBVIOUS
  <2>4. T # {}
    <3> SUFFICES ASSUME T = {} PROVE FALSE
      OBVIOUS
    <3>1. n = 0
      BY <2>3, FS_EmptySet
    <3>2. <<>> \in [1..0 -> {}] /\ 1..0 = {}
      OBVIOUS
    <3>3. HasRow(0, {}, R)
      BY <3>2 DEF HasRow, InRow
    <3> QED
      BY <2>3, <3>1, <3>3
  <2>5. PICK x \in T : TRUE
    BY <2>4
  <2>6. IsFiniteSet(T \ {x}) /\ Cardinality(T \ {x}) = n - 1
    BY <2>3, FS_RemoveElement
  <2>7. n - 1 \in Nat
    BY <2>6, FS_CardinalityType
  <2>8. T \ {x} \in SUBSET D /\ x \in D \ (T \ {x}) /\ (T \ {x}) \cup {x} = T
    OBVIOUS
  <2>9. HasRow(n - 1, T \ {x}, R)
    <3> SUFFICES ASSUME ~HasRow(n - 1, T \ {x}, R) PROVE FALSE
      OBVIOUS
    <3>1. n - 1 \in Bad
      BY <2>6, <2>7, <2>8
    <3>2. n <= n - 1
      BY <2>1, <3>1
    <3> HIDE DEF Bad
    <3> QED
      BY <2>2, <3>2
  <2> HIDE DEF Bad
  <2>10. HasRow((n - 1) + 1, (T \ {x}) \cup {x}, R)
    BY <2>7, <2>8, <2>9, PlaceFound
  <2>11. (n - 1) + 1 = n
    BY <2>2
  <2> QED
    BY <2>3, <2>8, <2>10, <2>11
<1>2. Cardinality(S) \in Nat
  BY FS_CardinalityType
<1>3. HasRow(Cardinality(S), S, R)
  BY <1>1, <1>2
<1> QED
  BY <1>2, <1>3

\* What the listings have in common: a positive page size, a direction, and
\* a date to sort by unless they are of products.
LEMMA ListingFacts ==
  ASSUME QTypeOK
  PROVE  /\ listing.limit \in Nat \ {0} /\ listing.dir \in {"ASC", "DESC"}
         /\ listing.table \in {"orders", "products", "reviews", "users"}
         /\ ~CarriesKey => ByDate /\ listing.dir = "DESC"
<1>1. listing \in Listings
  BY DEF QTypeOK
<1> DEFINE good(l) == /\ l.limit \in Limits /\ l.dir \in {"ASC", "DESC"}
                      /\ l.table \in {"orders", "products", "reviews", "users"}
                      /\ l.table \in {"reviews", "users"} => l.sortBy = "createdAt" /\ l.dir = "DESC"
<1>2. ASSUME NEW t \in {"orders", "reviews", "users"}, NEW l \in Listing(t, {"createdAt"}, {"DESC"})
      PROVE  good(l)
  BY <1>2 DEF Listing
<1>3. ASSUME NEW o \in Listing("orders", {"createdAt"}, {"DESC"}),
             NEW l, l = [o EXCEPT !.graph = TRUE]
      PROVE  good(l)
  BY <1>3 DEF Listing
<1>4. ASSUME NEW l \in Listing("products", {"createdAt", "price", "title"}, {"ASC", "DESC"})
      PROVE  good(l)
  BY <1>4 DEF Listing
<1>5. good(listing)
  <2>1. \/ listing \in Listing("orders", {"createdAt"}, {"DESC"})
        \/ listing \in {[l EXCEPT !.graph = TRUE] : l \in Listing("orders", {"createdAt"}, {"DESC"})}
        \/ listing \in Listing("reviews", {"createdAt"}, {"DESC"})
        \/ listing \in Listing("users", {"createdAt"}, {"DESC"})
        \/ listing \in Listing("products", {"createdAt", "price", "title"}, {"ASC", "DESC"})
    BY <1>1 DEF Listings
  <2> HIDE DEF good
  <2> QED
    BY <1>2, <1>3, <1>4, <2>1
<1> QED
  BY <1>5, QueriesAssumption DEF CarriesKey, ByDate

\* Milliseconds of moments in microseconds.
LEMMA TruncFacts ==
  ASSUME NEW a \in Nat, NEW b \in Nat
  PROVE  /\ Trunc(a) \in Nat /\ Trunc(a) <= a
         /\ a <= b => Trunc(a) <= Trunc(b)
         /\ Trunc(a) < Trunc(b) => a < Trunc(b) /\ a < b
<1>1. ASSUME NEW t \in Nat
      PROVE  \E k \in Nat : Trunc(t) = Micros * k /\ Micros * k <= t /\ t < Micros * k + Micros
  <2>1. t = Micros * (t \div Micros) + (t % Micros) /\ t % Micros \in 0..(Micros - 1)
    BY QueriesAssumption, SMTT(30)
  <2>2. t \div Micros \in Nat
    BY QueriesAssumption, SMTT(30)
  <2> DEFINE k == t \div Micros
  <2>3. k \in Nat /\ Micros * k \in Nat /\ Micros \in Nat
    BY <2>2, QueriesAssumption
  <2>4. t = Micros * k + (t % Micros)
    BY <2>1
  <2> HIDE DEF k
  <2>5. Trunc(t) = Micros * k /\ Micros * k <= t /\ t < Micros * k + Micros
    BY <2>1, <2>3, <2>4 DEF Trunc
  <2> QED
    BY <2>3, <2>5
<1>2. PICK p \in Nat : Trunc(a) = Micros * p /\ Micros * p <= a /\ a < Micros * p + Micros
  BY <1>1
<1>3. PICK q \in Nat : Trunc(b) = Micros * q /\ Micros * q <= b /\ b < Micros * q + Micros
  BY <1>1
<1>4. \A x, y \in Nat : x < y => Micros * x + Micros <= Micros * y
  BY QueriesAssumption, SMTT(30)
<1>5. \A x \in Nat : Micros * x \in Nat
  BY QueriesAssumption
<1>6. PICK mp \in Nat, mq \in Nat : mp = Micros * p /\ mq = Micros * q
  BY <1>5
<1>7. Micros \in Nat
  BY QueriesAssumption
<1>8. (p < q => mp + Micros <= mq) /\ (q < p => mq + Micros <= mp) /\ (p = q => mp = mq)
  BY <1>4, <1>6
<1> QED
  BY <1>2, <1>3, <1>6, <1>7, <1>8

\* The values rows are sorted and compared by.
LEMMA KeyFacts ==
  ASSUME QTypeOK, NEW id \in Ids
  PROVE  /\ id \in Nat /\ rows[id].at \in Nat /\ rows[id].key \in Nat
         /\ SortKey(id) \in Nat /\ CursorOf(id) \in Positions /\ CursorOf(id) # NoCursor
         /\ CursorOf(id).id = id
         /\ CursorOf(id).key = (IF ByDate THEN Trunc(rows[id].at) ELSE rows[id].key)
         /\ CursorOf(id).key \in Nat /\ ComparedKey(id) \in Nat
<1>1. rows[id] \in Row
  BY DEF QTypeOK
<1>2. id \in Nat /\ rows[id].at \in Nat /\ rows[id].key \in Nat
  BY <1>1, QueriesAssumption DEF Row
<1>3. Trunc(rows[id].at) \in Nat
  BY <1>2, TruncFacts
<1>4. CursorOf(id) \in Positions
  BY <1>2, <1>3 DEF CursorOf, Positions
<1> QED
  BY <1>2, <1>3, <1>4, QueriesAssumption DEF CursorOf, SortKey, ComparedKey

Ordering == {w \in Ids \X Ids : Before(w[1], w[2])}

\* The ORDER BY of every listing is a strict total order of the ids.
LEMMA BeforeOrders ==
  ASSUME QTypeOK
  PROVE  Orders(Ordering, Ids) /\ \A i, j \in Ids : <<i, j>> \in Ordering <=> Before(i, j)
<1>1. \A i, j \in Ids : <<i, j>> \in Ordering <=> Before(i, j)
  BY DEF Ordering
<1>2. \A x \in Ids : x \in Nat /\ SortKey(x) \in Nat
  BY KeyFacts
<1>3. \A x \in Ids : ~Before(x, x)
  BY <1>2 DEF Before, Precedes
<1>4. ASSUME NEW x \in Ids, NEW y \in Ids, NEW z \in Ids, Before(x, y), Before(y, z)
      PROVE  Before(x, z)
  BY <1>2, <1>4 DEF Before, Precedes
<1>5. ASSUME NEW x \in Ids, NEW y \in Ids
      PROVE  x = y \/ Before(x, y) \/ Before(y, x)
  BY <1>2 DEF Before, Precedes
<1> QED
  BY <1>1, <1>3, <1>4, <1>5 DEF Orders

\* Sorted has every row of the set once, in order.
LEMMA SortedFacts ==
  ASSUME QTypeOK, NEW S \in SUBSET Ids
  PROVE  /\ Cardinality(S) \in Nat
         /\ Sorted(S) \in [1..Cardinality(S) -> S]
         /\ \A i, j \in 1..Cardinality(S) : i < j => Before(Sorted(S)[i], Sorted(S)[j])
         /\ \A y \in S : \E i \in 1..Cardinality(S) : Sorted(S)[i] = y
<1>1. IsFiniteSet(S)
  BY QueriesAssumption, FS_Subset
<1>2. Cardinality(S) \in Nat /\ HasRow(Cardinality(S), S, Ordering)
  BY <1>1, BeforeOrders, RowExists
<1>3. PICK n \in Nat : n = Cardinality(S)
  BY <1>2
<1>4. \E q \in [1..n -> S] : \A i, j \in 1..n : i < j => Before(q[i], q[j])
  <2>1. PICK q \in [1..n -> S] : InRow(q, n, Ordering)
    BY <1>2, <1>3 DEF HasRow
  <2>2. \A i, j \in 1..n : i < j => Before(q[i], q[j])
    <3> SUFFICES ASSUME NEW i \in 1..n, NEW j \in 1..n, i < j PROVE Before(q[i], q[j])
      OBVIOUS
    <3>1. q[i] \in Ids /\ q[j] \in Ids
      OBVIOUS
    <3> QED
      BY <2>1, <3>1, BeforeOrders DEF InRow
  <2> QED
    BY <2>2
<1>5. Sorted(S) \in [1..n -> S] /\ \A i, j \in 1..n : i < j => Before(Sorted(S)[i], Sorted(S)[j])
  BY <1>3, <1>4 DEF Sorted
<1>6. Sorted(S) \in Injection(1..n, S)
  <2> SUFFICES ASSUME NEW i \in 1..n, NEW j \in 1..n, Sorted(S)[i] = Sorted(S)[j] PROVE i = j
    BY <1>5 DEF Injection, IsInjective
  <2>1. Sorted(S)[i] \in Ids /\ ~Before(Sorted(S)[i], Sorted(S)[i])
    BY <1>5, BeforeOrders DEF Orders
  <2>2. ~(i < j) /\ ~(j < i)
    BY <1>5, <2>1
  <2> QED
    BY <2>2
<1>7. Cardinality(1..n) = n
  BY <1>3, FS_Interval
<1>8. Sorted(S) \in Surjection(1..n, S)
  BY <1>1, <1>3, <1>6, <1>7, FS_Injection
<1> QED
  BY <1>3, <1>5, <1>8 DEF Surjection

-----------------------------------------------------------------------------
(* Listings: what a page holds *)

\* The beginning of a sequence.
LEMMA Beginning ==
  ASSUME NEW S, NEW q \in Seq(S), NEW m \in Nat, m <= Len(q)
  PROVE  /\ SubSeq(q, 1, m) \in Seq(S) /\ Len(SubSeq(q, 1, m)) = m
         /\ \A i \in 1..m : SubSeq(q, 1, m)[i] = q[i]
<1>1. Len(q) \in Nat /\ q \in [1..Len(q) -> S]
  BY LenProperties
<1>2. \A i \in 1..m : q[i] \in S
  BY <1>1
<1>3. /\ SubSeq(q, 1, m) \in Seq(S)
      /\ Len(SubSeq(q, 1, m)) = IF 1 <= m THEN m - 1 + 1 ELSE 0
      /\ \A i \in 1..(m - 1 + 1) : SubSeq(q, 1, m)[i] = q[1 + i - 1]
  BY <1>2, SubSeqProperties
<1> QED
  BY <1>3

\* What a query answers: the rows of a set in order, all of them or one more
\* than the page holds.
Leading(f, S) ==
  /\ f \in Seq(S) /\ Len(f) <= Cardinality(S)
  /\ \A i \in 1..Len(f) : f[i] = Sorted(S)[i]
  /\ Len(f) < Cardinality(S) => Len(f) > listing.limit

LEMMA SortedLeads ==
  ASSUME QTypeOK, NEW S \in SUBSET Ids
  PROVE  Leading(Sorted(S), S)
<1>1. PICK n \in Nat : n = Cardinality(S)
  BY SortedFacts
<1>2. Sorted(S) \in [1..n -> S]
  BY <1>1, SortedFacts
<1>3. Sorted(S) \in Seq(S) /\ Len(Sorted(S)) = n
  BY <1>2
<1> QED
  BY <1>1, <1>3 DEF Leading

LEMMA FetchedLeads ==
  ASSUME QTypeOK, NEW c
  PROVE  Leading(Fetched(c), Found(c))
<1>1. PICK S \in SUBSET Ids : S = Found(c)
  BY DEF Found
<1>2. PICK n \in Nat : n = Cardinality(S)
  BY SortedFacts
<1>3. PICK q \in [1..n -> S] : q = Sorted(S)
  BY <1>2, SortedFacts
<1>4. q \in Seq(S) /\ Len(q) = n
  OBVIOUS
<1>5. PICK lim \in Nat \ {0} : lim = listing.limit
  BY ListingFacts
<1>6. PICK m \in Nat : m = (IF n > lim THEN lim + 1 ELSE n) /\ m <= n
  OBVIOUS
<1>7. Fetched(c) = SubSeq(q, 1, m)
  BY <1>1, <1>3, <1>4, <1>5, <1>6 DEF Fetched
<1>8. /\ Fetched(c) \in Seq(S) /\ Len(Fetched(c)) = m
      /\ \A i \in 1..m : Fetched(c)[i] = q[i]
  BY <1>4, <1>6, <1>7, Beginning
<1> QED
  BY <1>1, <1>2, <1>3, <1>5, <1>6, <1>8 DEF Leading

\* A page has rows its query found, in order; with a next page, the rest
\* comes after the row of the cursor; without, there is no rest.
LEMMA PageFacts ==
  ASSUME QTypeOK, NEW S \in SUBSET Ids, NEW f, Leading(f, S),
         NEW g, g = PageOf(f), NEW nc, nc = NextCursor(f)
  PROVE  /\ g \in Seq(S) /\ Len(g) \in Nat
         /\ \A i, j \in 1..Len(g) : i < j => Before(g[i], g[j])
         /\ nc = NoCursor => \A y \in S : \E i \in 1..Len(g) : g[i] = y
         /\ nc # NoCursor =>
              /\ Len(g) >= 1 /\ g[Len(g)] \in S /\ nc = CursorOf(g[Len(g)])
              /\ \A y \in S : (\E i \in 1..Len(g) : g[i] = y) \/ Before(g[Len(g)], y)
         /\ nc # NoCursor <=> HasNextPage(f)
<1>2. PICK n \in Nat : n = Cardinality(S)
  BY SortedFacts
<1>3. PICK q \in [1..n -> S] : q = Sorted(S)
  BY <1>2, SortedFacts
<1>4. /\ \A i, j \in 1..n : i < j => Before(q[i], q[j])
      /\ \A y \in S : \E i \in 1..n : q[i] = y
  BY <1>2, <1>3, SortedFacts
<1>5. PICK m \in Nat : m = Len(f)
  BY DEF Leading
<1>6. PICK lim \in Nat \ {0} : lim = listing.limit
  BY ListingFacts
<1>7. f \in Seq(S) /\ m <= n /\ (\A i \in 1..m : f[i] = q[i]) /\ (m < n => m > lim)
  BY <1>2, <1>3, <1>5, <1>6 DEF Leading
<1>8. CASE m > lim
  <2>4. HasNextPage(f) /\ lim <= Len(f)
    BY <1>5, <1>6, <1>8 DEF HasNextPage
  <2>5. g = SubSeq(f, 1, lim)
    BY <1>6, <2>4 DEF PageOf
  <2>6. g \in Seq(S) /\ Len(g) = lim /\ \A i \in 1..lim : g[i] = f[i]
    BY <1>7, <2>4, <2>5, Beginning
  <2>7. \A i \in 1..lim : g[i] = q[i] /\ i \in 1..n
    BY <1>7, <1>8, <2>6
  <2>8. g[lim] \in S /\ g[lim] = q[lim] /\ lim \in 1..n
    BY <2>7
  <2>9. nc = CursorOf(g[lim])
    BY <2>4, <2>6 DEF NextCursor, Last
  <2>10. nc # NoCursor
    BY <2>8, <2>9, KeyFacts
  <2>11. ASSUME NEW y \in S PROVE (\E i \in 1..lim : g[i] = y) \/ Before(g[lim], y)
    <3>1. PICK i \in 1..n : q[i] = y
      BY <1>4
    <3>2. CASE i <= lim
      BY <2>7, <3>1, <3>2
    <3>3. CASE lim < i
      BY <1>4, <2>8, <3>1, <3>3
    <3> QED
      BY <3>2, <3>3
  <2>12. \A i, j \in 1..lim : i < j => Before(g[i], g[j])
    BY <1>4, <2>7
  <2> QED
    BY <2>4, <2>6, <2>8, <2>9, <2>10, <2>11, <2>12
<1>9. CASE ~(m > lim)
  <2>1. m = n
    BY <1>7, <1>9
  <2>2. ~HasNextPage(f)
    BY <1>5, <1>6, <1>9 DEF HasNextPage
  <2>3. g = f /\ nc = NoCursor
    BY <2>2 DEF PageOf, NextCursor
  <2> QED
    BY <1>4, <1>5, <1>7, <2>1, <2>2, <2>3
<1> QED
  BY <1>8, <1>9

\* The ids chosen for a page: found, and before every row found and not chosen,
\* of which there are some only with one more id than the page holds.
LEMMA ChosenFacts ==
  ASSUME QTypeOK, NEW S \in SUBSET Ids, NEW f, Leading(f, S), NEW x \in S, x \notin ToSet(f)
  PROVE  Cardinality(ToSet(f)) > listing.limit /\ \A y \in ToSet(f) : Before(y, x)
<1>1. PICK n \in Nat : n = Cardinality(S)
  BY SortedFacts
<1>2. PICK q \in [1..n -> S] : q = Sorted(S)
  BY <1>1, SortedFacts
<1>3. /\ \A i, j \in 1..n : i < j => Before(q[i], q[j])
      /\ \A y \in S : \E i \in 1..n : q[i] = y
  BY <1>1, <1>2, SortedFacts
<1>4. PICK m \in Nat : m = Len(f)
  BY DEF Leading
<1>5. PICK lim \in Nat \ {0} : lim = listing.limit
  BY ListingFacts
<1>6. f \in Seq(S) /\ m <= n /\ (\A i \in 1..m : f[i] = q[i]) /\ (m < n => m > lim)
  BY <1>1, <1>2, <1>4, <1>5 DEF Leading
<1>7. DOMAIN f = 1..m /\ f \in [1..m -> S]
  BY <1>4, <1>6
<1>8. ToSet(f) = {f[i] : i \in 1..m} /\ ToSet(f) \subseteq Ids
  BY <1>7 DEF ToSet
<1>9. PICK k \in 1..n : q[k] = x
  BY <1>3
<1>10. m < k
  BY <1>6, <1>8, <1>9
<1>11. \A y \in ToSet(f) : Before(y, x)
  <2> SUFFICES ASSUME NEW i \in 1..m PROVE Before(f[i], x)
    BY <1>8
  <2> QED
    BY <1>3, <1>6, <1>9, <1>10
<1>12. f \in Injection(1..m, ToSet(f))
  <2> SUFFICES ASSUME NEW i \in 1..m, NEW j \in 1..m, f[i] = f[j] PROVE i = j
    BY <1>7, <1>8 DEF Injection, IsInjective
  <2>1. f[i] = q[i] /\ f[j] = q[j] /\ i \in 1..n /\ j \in 1..n /\ q[i] \in Ids
    BY <1>6
  <2>2. ~Before(q[i], q[i])
    BY <2>1, BeforeOrders DEF Orders
  <2>3. ~(i < j) /\ ~(j < i)
    BY <1>3, <2>1, <2>2
  <2> QED
    BY <2>3
<1>13. IsFiniteSet(ToSet(f))
  BY <1>8, QueriesAssumption, FS_Subset
<1>14. Cardinality(1..m) = m /\ Cardinality(1..m) <= Cardinality(ToSet(f)) /\ Cardinality(ToSet(f)) \in Nat
  BY <1>12, <1>13, FS_Interval, FS_Injection, FS_CardinalityType
<1> QED
  BY <1>5, <1>6, <1>10, <1>11, <1>14

-----------------------------------------------------------------------------
(* Listings: the cursor separates what was seen from what is to come *)

\* The position of a row of the table.
RealPosition(c) ==
  /\ c \in Positions /\ rows[c.id].state # "none"
  /\ ByDate => c.key = Trunc(rows[c.id].at)

\* A row up to the last one of a page is behind the cursor of that row.
LEMMA BeforePassed ==
  ASSUME QTypeOK, NEW x \in Ids, NEW y \in Ids, x = y \/ Before(x, y)
  PROVE  Passed(x, CursorOf(y))
<1>1. /\ x \in Nat /\ y \in Nat /\ SortKey(x) \in Nat /\ SortKey(y) \in Nat
      /\ rows[x].at \in Nat /\ rows[y].at \in Nat /\ CursorOf(y).id = y
      /\ CursorOf(x).key \in Nat /\ CursorOf(y).key \in Nat
      /\ CursorOf(x).key = (IF ByDate THEN Trunc(rows[x].at) ELSE rows[x].key)
      /\ CursorOf(y).key = (IF ByDate THEN Trunc(rows[y].at) ELSE rows[y].key)
  BY KeyFacts
<1>2. CASE listing.table = "users"
  BY <1>1, <1>2 DEF Passed
<1>3. CASE listing.table # "users" /\ x = y
  BY <1>1, <1>3 DEF Passed
<1>4. CASE listing.table # "users" /\ Before(x, y) /\ ByDate
  <2>1. /\ rows[x].at <= rows[y].at => CursorOf(x).key <= CursorOf(y).key
        /\ rows[y].at <= rows[x].at => CursorOf(y).key <= CursorOf(x).key
    BY <1>1, <1>4, TruncFacts
  <2> QED
    BY <1>1, <1>4, <2>1 DEF Passed, Before, Precedes, SortKey
<1>5. CASE listing.table # "users" /\ Before(x, y) /\ ~ByDate
  BY <1>1, <1>5 DEF Passed, Before, Precedes, SortKey
<1> QED
  BY <1>2, <1>3, <1>4, <1>5

\* The rows of a listing of users that a cursor lets through come after it.
LEMMA UsersBeyond ==
  ASSUME QTypeOK, NEW c, RealPosition(c), NEW y \in Ids, listing.table = "users", Beyond(y, c)
  PROVE  c.id \in Ids /\ Before(c.id, y)
<1>1. c.id \in Ids /\ c.key \in Nat
  BY DEF RealPosition, Positions
<1>2. ByDate /\ listing.dir = "DESC"
  BY ListingFacts DEF CarriesKey
<1>3. /\ y \in Nat /\ c.id \in Nat /\ rows[y].at \in Nat /\ rows[c.id].at \in Nat
  BY <1>1, KeyFacts
<1>4. c.key <= rows[c.id].at
  BY <1>2, <1>3, TruncFacts DEF RealPosition
<1> QED
  BY <1>1, <1>2, <1>3, <1>4 DEF Beyond, ComparedKey, Before, SortKey, Precedes

\* What is behind a position comes before what is beyond it, except in one
\* millisecond.
LEMMA PassedBeyond ==
  ASSUME QTypeOK, NEW c, RealPosition(c), NEW x \in Ids, NEW y \in Ids,
         Passed(x, c), Beyond(y, c), rows[y].state # "none"
  PROVE  \/ Before(x, y)
         \/ listing.table # "users" /\ SameMillisecond(x, y) /\ Shares(x)
<1>1. c.id \in Ids /\ c.key \in Nat /\ c.id \in Nat
  BY KeyFacts DEF RealPosition, Positions
<1>2. /\ x \in Nat /\ y \in Nat /\ rows[x].at \in Nat /\ rows[y].at \in Nat
      /\ rows[x].key \in Nat /\ rows[y].key \in Nat
      /\ CursorOf(x).key \in Nat /\ CursorOf(y).key \in Nat
      /\ CursorOf(x).key = (IF ByDate THEN Trunc(rows[x].at) ELSE rows[x].key)
      /\ CursorOf(y).key = (IF ByDate THEN Trunc(rows[y].at) ELSE rows[y].key)
  BY KeyFacts
<1>3. CASE listing.table = "users"
  <2>1. Before(c.id, y)
    BY <1>3, UsersBeyond
  <2>2. x = c.id \/ Before(x, c.id)
    BY <1>3 DEF Passed
  <2> QED
    BY <1>1, <2>1, <2>2, BeforeOrders DEF Orders
<1>4. CASE listing.table # "users" /\ ~ByDate
  BY <1>1, <1>2, <1>4 DEF Passed, Beyond, ComparedKey, Before, SortKey, Precedes
<1>5. CASE listing.table # "users" /\ ByDate
  <2>1. CASE Precedes(CursorOf(x).key, CursorOf(y).key)
    <3>1. /\ Trunc(rows[x].at) < Trunc(rows[y].at) => rows[x].at < rows[y].at
          /\ Trunc(rows[y].at) < Trunc(rows[x].at) => rows[y].at < rows[x].at
      BY <1>2, TruncFacts
    <3> QED
      BY <1>2, <1>5, <2>1, <3>1 DEF Before, SortKey, Precedes
  <2>2. CASE ~Precedes(CursorOf(x).key, CursorOf(y).key)
    <3>1. /\ CursorOf(x).key = c.key /\ c.key = CursorOf(y).key /\ Precedes(c.id, y)
      BY <1>1, <1>2, <1>5, <2>2 DEF Passed, Beyond, ComparedKey, Precedes
    <3>2. SameMillisecond(x, y) /\ SameMillisecond(x, c.id)
      BY <1>2, <1>5, <3>1 DEF SameMillisecond, RealPosition
    <3>3. c.id # y
      BY <1>1, <1>2, <3>1 DEF Precedes
    <3>4. Shares(x)
      <4>1. CASE x = y
        BY <1>1, <3>2, <3>3, <4>1 DEF Shares, RealPosition
      <4>2. CASE x # y
        BY <3>2, <4>2 DEF Shares
      <4> QED
        BY <4>1, <4>2
    <3> QED
      BY <1>5, <3>2, <3>4
  <2> QED
    BY <2>1, <2>2
<1> QED
  BY <1>3, <1>4, <1>5

\* It stays behind the cursor of a row beyond.
LEMMA PassedOn ==
  ASSUME QTypeOK, NEW c, RealPosition(c), NEW x \in Ids, NEW y \in Ids, Passed(x, c), Beyond(y, c)
  PROVE  Passed(x, CursorOf(y))
<1>1. c.id \in Ids /\ c.key \in Nat /\ c.id \in Nat
  BY KeyFacts DEF RealPosition, Positions
<1>2. /\ x \in Nat /\ y \in Nat /\ CursorOf(y).id = y
      /\ CursorOf(x).key \in Nat /\ CursorOf(y).key \in Nat
  BY KeyFacts
<1>3. CASE listing.table = "users"
  <2>1. Before(c.id, y)
    BY <1>3, UsersBeyond
  <2>2. x = c.id \/ Before(x, c.id)
    BY <1>3 DEF Passed
  <2>3. Before(x, y)
    BY <1>1, <2>1, <2>2, BeforeOrders DEF Orders
  <2> QED
    BY <1>2, <1>3, <2>3 DEF Passed
<1>4. CASE listing.table # "users"
  BY <1>1, <1>2, <1>4 DEF Passed, Beyond, ComparedKey, Precedes
<1> QED
  BY <1>3, <1>4

\* A row that is ahead and shares its millisecond with no other is found.
LEMMA AheadBeyond ==
  ASSUME QTypeOK, NEW c, RealPosition(c), NEW x \in Ids, x # c.id, Ahead(x, c), ~Shares(x)
  PROVE  Beyond(x, c)
<1>1. c.id \in Ids /\ c.key \in Nat /\ c.id \in Nat
  BY KeyFacts DEF RealPosition, Positions
<1>2. CASE listing.table # "users"
  BY <1>2 DEF Ahead, Beyond, ComparedKey
<1>3. CASE listing.table = "users"
  <2>1. ByDate /\ listing.dir = "DESC"
    BY <1>3, ListingFacts DEF CarriesKey
  <2>2. /\ rows[x].at \in Nat /\ rows[c.id].at \in Nat
        /\ CursorOf(x).key = Trunc(rows[x].at) /\ c.key = Trunc(rows[c.id].at)
    BY <1>1, <2>1, KeyFacts DEF RealPosition
  <2>3. c.key # CursorOf(x).key
    BY <1>1, <2>1, <2>2 DEF Shares, SameMillisecond, RealPosition
  <2>4. Trunc(rows[x].at) < Trunc(rows[c.id].at)
    BY <2>1, <2>2, <2>3 DEF Ahead, Precedes
  <2>5. rows[x].at < c.key
    BY <2>2, <2>4, TruncFacts
  <2> QED
    BY <1>3, <2>1, <2>5 DEF Beyond, ComparedKey, Precedes
<1> QED
  BY <1>2, <1>3

\* A row after the last one of a page is ahead of its cursor, unless the two
\* share a millisecond.
LEMMA AfterIsAhead ==
  ASSUME QTypeOK, NEW x \in Ids, NEW y \in Ids, Before(y, x), ~Shares(x), rows[y].state # "none"
  PROVE  Ahead(x, CursorOf(y))
<1>1. /\ x \in Nat /\ y \in Nat /\ CursorOf(y).id = y
      /\ rows[x].at \in Nat /\ rows[y].at \in Nat
      /\ rows[x].key \in Nat /\ rows[y].key \in Nat
      /\ CursorOf(x).key \in Nat /\ CursorOf(y).key \in Nat
      /\ CursorOf(x).key = (IF ByDate THEN Trunc(rows[x].at) ELSE rows[x].key)
      /\ CursorOf(y).key = (IF ByDate THEN Trunc(rows[y].at) ELSE rows[y].key)
  BY KeyFacts
<1>2. x # y
  BY BeforeOrders DEF Orders
<1>3. CASE ByDate
  <2>1. Trunc(rows[x].at) # Trunc(rows[y].at)
    BY <1>2, <1>3 DEF Shares, SameMillisecond
  <2>2. /\ rows[x].at <= rows[y].at => Trunc(rows[x].at) <= Trunc(rows[y].at)
        /\ rows[y].at <= rows[x].at => Trunc(rows[y].at) <= Trunc(rows[x].at)
    BY <1>1, TruncFacts
  <2> QED
    BY <1>1, <1>3, <2>1, <2>2 DEF Ahead, Before, SortKey, Precedes
<1>4. CASE ~ByDate
  BY <1>1, <1>4 DEF Ahead, Before, SortKey, Precedes
<1> QED
  BY <1>3, <1>4

-----------------------------------------------------------------------------
(* Listings: rows that are not touched *)

\* Two rows left as they are keep their places.
LEMMA SamePlaces ==
  ASSUME listing' = listing, NEW x \in Ids, NEW y \in Ids, rows'[x] = rows[x], rows'[y] = rows[y]
  PROVE  /\ Before(x, y)' <=> Before(x, y)
         /\ SameMillisecond(x, y)' <=> SameMillisecond(x, y)
  BY DEF Before, Precedes, SortKey, ByDate, SameMillisecond, Trunc

\* A row keeps its place by a position, whose row keeps its date.
LEMMA SamePosition ==
  ASSUME QTypeOK, listing' = listing, NEW x \in Ids, rows'[x] = rows[x], NEW c \in Positions
  PROVE  /\ Ahead(x, c)' <=> Ahead(x, c)
         /\ (ByDate => rows'[c.id].at = rows[c.id].at) => (Passed(x, c)' <=> Passed(x, c))
<1>1. Ahead(x, c)' <=> Ahead(x, c)
  BY DEF Ahead, CursorOf, Precedes, ByDate, Trunc
<1>2. CASE listing.table = "users"
  <2>1. ByDate
    BY <1>2, ListingFacts DEF CarriesKey
  <2> QED
    BY <1>1, <1>2, <2>1 DEF Passed, Before, SortKey, Precedes, ByDate
<1>3. CASE listing.table # "users"
  BY <1>1, <1>3 DEF Passed, CursorOf, Precedes, ByDate, Trunc
<1> QED
  BY <1>2, <1>3

\* What a row in the table keeps whatever happens to it.
DatesKept ==
  \A j \in Ids : rows[j].state # "none" => rows'[j].state # "none" /\ rows'[j].at = rows[j].at

LEMMA SharesKept ==
  ASSUME listing' = listing, DatesKept, NEW x \in Ids, rows'[x] = rows[x], Shares(x)
  PROVE  Shares(x)'
  BY DEF DatesKept, Shares, SameMillisecond, ByDate, Trunc

\* Where a walk is before its first page.
Unpaged == {"ask", "rows", "refused"}

\* A step that shows no page.
LEMMA NoPage ==
  ASSUME QInv, QTypeOK', WalkConsistent', IdsChosen', listing' = listing, DatesKept,
         \A x \in steady' : rows'[x] = rows[x], steady' \subseteq steady,
         UNCHANGED <<cursor, seen>>, restarted => restarted', shortened' = shortened,
         cursor = NoCursor /\ walk \in Unpaged => walk' \in Unpaged
  PROVE  QInv'
<1>0. /\ QTypeOK /\ CursorReal /\ SeenInOrder /\ SeenBehind /\ RestAhead
      /\ steady' \subseteq Ids /\ restarted \in BOOLEAN /\ restarted' \in BOOLEAN
      /\ seen \in Seq(Ids) /\ cursor \in Positions \cup {NoCursor}
      /\ ByDate' = ByDate
  BY DEF QInv, QTypeOK, ByDate
<1>1. cursor # NoCursor => cursor \in Positions /\ cursor.id \in Ids
  BY <1>0 DEF Positions
<1>2. cursor # NoCursor => rows'[cursor.id].state # "none" /\ rows'[cursor.id].at = rows[cursor.id].at
  BY <1>0, <1>1 DEF CursorReal, DatesKept
<1>3. CursorReal'
  BY <1>0, <1>2 DEF CursorReal, Trunc, ByDate
<1>4. SeenInOrder'
  <2> SUFFICES ASSUME NEW i \in 1..Len(seen), NEW j \in 1..Len(seen), i < j,
                      {seen[i], seen[j]} \subseteq steady', ~(restarted' /\ listing.table = "reviews")
               PROVE  (\/ Before(seen[i], seen[j])
                       \/ listing.table # "users" /\ SameMillisecond(seen[i], seen[j]) /\ Shares(seen[i]))'
    BY DEF SeenInOrder
  <2>1. PICK x \in Ids, y \in Ids : x = seen[i] /\ y = seen[j]
    BY <1>0
  <2>2. rows'[x] = rows[x] /\ rows'[y] = rows[y]
    BY <2>1
  <2>3. Before(x, y) \/ (listing.table # "users" /\ SameMillisecond(x, y) /\ Shares(x))
    BY <1>0, <2>1 DEF SeenInOrder
  <2>4. Before(x, y)' \/ (listing'.table # "users" /\ SameMillisecond(x, y)' /\ Shares(x)')
    BY <2>2, <2>3, SamePlaces, SharesKept
  <2>5. x = seen'[i] /\ y = seen'[j]
    BY <2>1
  <2> QED
    BY <2>4, <2>5
<1>5. SeenBehind'
  <2> SUFFICES ASSUME cursor # NoCursor, ~(restarted' /\ listing.table = "reviews"),
                      NEW i \in 1..Len(seen), seen[i] \in steady'
               PROVE  Passed(seen[i], cursor)'
    BY DEF SeenBehind
  <2>1. PICK x \in Ids : x = seen[i] /\ x = seen'[i]
    BY <1>0
  <2>2. PICK c \in Positions : c = cursor /\ c = cursor'
    BY <1>1
  <2>3. Passed(x, c)
    BY <1>0, <2>1, <2>2 DEF SeenBehind
  <2>4. Passed(x, c)'
    BY <1>0, <1>2, <2>1, <2>2, <2>3, SamePosition
  <2> QED
    BY <2>1, <2>2, <2>4
<1>6. RestAhead'
  <2> SUFFICES ASSUME NEW x \in steady', x \notin ToSet(seen), ~Shares(x)', ~shortened
               PROVE  (IF cursor = NoCursor THEN walk \in Unpaged ELSE Ahead(x, cursor))'
    BY DEF RestAhead, Unpaged
  <2>1. x \in Ids /\ x \in steady /\ rows'[x] = rows[x]
    BY <1>0
  <2>2. ~Shares(x)
    BY <2>1, SharesKept
  <2>3. IF cursor = NoCursor THEN walk \in Unpaged ELSE Ahead(x, cursor)
    BY <2>1, <2>2, <1>0 DEF RestAhead, Unpaged
  <2>4. CASE cursor = NoCursor
    BY <2>3, <2>4
  <2>5. CASE cursor # NoCursor
    <3>1. PICK c \in Positions : c = cursor /\ c = cursor'
      BY <1>1, <2>5
    <3>2. Ahead(x, c)'
      BY <1>0, <2>1, <2>3, <2>5, <3>1, SamePosition
    <3> QED
      BY <2>5, <3>1, <3>2
  <2> QED
    BY <2>4, <2>5
<1> QED
  BY <1>3, <1>4, <1>5, <1>6 DEF QInv

-----------------------------------------------------------------------------
(* Listings: every step *)

\* A row is inserted, changed or removed.
LEMMA ChangeKeeps ==
  ASSUME QInv, NEW id \in Ids,
         \/ \E r \in Row : InsertRow(id, r)
         \/ \E k \in Keys, m \in BOOLEAN : UpdateRow(id, k, m)
         \/ RemoveRow(id)
  PROVE  QInv'
<1>0. /\ QTypeOK /\ WalkConsistent /\ IdsChosen /\ rows \in [Ids -> Row] /\ rows[id] \in Row
      /\ steady \subseteq {x \in Ids : Shown(x)}
  BY DEF QInv, QTypeOK
<1>1. /\ steady' = steady \ {id}
      /\ UNCHANGED <<listing, walk, cursor, from, ids, page, seen, restarted, shortened>>
  BY DEF InsertRow, UpdateRow, RemoveRow, Change, walkVars
<1>2. PICK new \in Row : /\ rows' = [rows EXCEPT ![id] = new]
                         /\ rows[id].state # "none" => new.state # "none" /\ new.at = rows[id].at
  <2>1. CASE \E r \in Row : InsertRow(id, r)
    BY <2>1 DEF InsertRow, Change
  <2>2. CASE \E k \in Keys, m \in BOOLEAN : UpdateRow(id, k, m)
    <3>1. PICK k \in Keys, m \in BOOLEAN : UpdateRow(id, k, m)
      BY <2>2
    <3>2. /\ rows' = [rows EXCEPT ![id] = [rows[id] EXCEPT !.key = k, !.matches = m]]
          /\ rows[id].state = "live"
      BY <1>0, <3>1 DEF UpdateRow, Change
    <3>3. [rows[id] EXCEPT !.key = k, !.matches = m] \in Row
      BY <1>0 DEF Row
    <3> QED
      BY <1>0, <3>2, <3>3 DEF Row
  <2>3. CASE RemoveRow(id)
    <3>1. rows' = [rows EXCEPT ![id] = [rows[id] EXCEPT !.state = "removed"]]
      BY <1>0, <2>3 DEF RemoveRow, Change
    <3>2. [rows[id] EXCEPT !.state = "removed"] \in Row
      BY <1>0 DEF Row
    <3> QED
      BY <1>0, <3>1, <3>2 DEF Row
  <2> QED
    BY <2>1, <2>2, <2>3
<1>3. rows' \in [Ids -> Row] /\ DatesKept /\ \A x \in Ids : x # id => rows'[x] = rows[x]
  BY <1>0, <1>2 DEF DatesKept
<1>4. steady' \subseteq {x \in Ids : Shown(x)'}
  BY <1>0, <1>1, <1>3 DEF Shown
<1>5. QTypeOK'
  BY <1>0, <1>1, <1>3, <1>4 DEF QTypeOK
<1>6. WalkConsistent'
  BY <1>0, <1>1 DEF WalkConsistent
<1>7. steady' \subseteq steady /\ \A x \in steady' : rows'[x] = rows[x]
  BY <1>0, <1>1, <1>3
<1>8. IdsChosen'
  <2> SUFFICES ASSUME walk = "rows" PROVE IdsChosen'
    BY <1>1 DEF IdsChosen
  <2>1. ByDate /\ listing.table = "reviews" /\ ids \subseteq Ids
    BY <1>0, ListingFacts DEF WalkConsistent, CarriesKey, QTypeOK
  <2>2. \A y \in ids : rows[y].state # "none" /\ (from # NoCursor => Beyond(y, from))
    BY <1>0 DEF IdsChosen
  <2>3. \A y \in ids \cup steady' : rows'[y].at = rows[y].at /\ rows'[y].state # "none"
    BY <1>0, <1>3, <1>4, <1>7, <2>1, <2>2 DEF DatesKept, Shown
  <2>4. \A y \in ids \cup steady' : Beyond(y, from)' <=> Beyond(y, from)
    BY <1>1, <2>1, <2>3 DEF Beyond, ComparedKey, CursorOf, Precedes, ByDate, Trunc
  <2>5. \A y \in ids, x \in steady' : Before(y, x)' <=> Before(y, x)
    BY <1>1, <2>1, <2>3 DEF Before, SortKey, Precedes, ByDate
  <2> QED
    BY <1>0, <1>1, <1>7, <2>2, <2>3, <2>4, <2>5 DEF IdsChosen
<1> QED
  BY <1>1, <1>3, <1>5, <1>6, <1>7, <1>8, NoPage

\* The row of the cursor is looked up; an answer is put together.
LEMMA LookupKeeps ==
  ASSUME QInv, Lookup
  PROVE  QInv'
<1>0. /\ QTypeOK /\ CursorReal /\ WalkConsistent /\ restarted \in BOOLEAN
      /\ steady \subseteq {x \in Ids : Shown(x)} /\ cursor \in Positions \cup {NoCursor}
      /\ walk = "ask" /\ cursor # NoCursor /\ ~CarriesKey
      /\ UNCHANGED <<listing, rows, steady, changes, cursor, ids, page, seen, shortened>>
  BY DEF QInv, QTypeOK, Lookup
<1>1. ByDate /\ listing.table \in {"reviews", "users"} /\ cursor \in Positions /\ cursor.id \in Ids
  BY <1>0, ListingFacts DEF CarriesKey, Positions
<1>2. cursor = CursorOf(cursor.id)
  <2>1. PICK a \in Ids, b \in Nat : cursor = [id |-> a, key |-> b]
    BY <1>1 DEF Positions
  <2> QED
    BY <1>0, <1>1, <2>1 DEF CursorReal, CursorOf
<1>3. CASE rows[cursor.id].state = "live"
  <2>1. walk' = "read" /\ from' = cursor /\ restarted' = restarted
    BY <1>0, <1>2, <1>3 DEF Lookup
  <2>2. QTypeOK'
    BY <1>0, <1>1, <2>1 DEF QTypeOK, Shown
  <2>3. WalkConsistent'
    BY <1>0, <2>1 DEF WalkConsistent
  <2> QED
    BY <1>0, <2>1, <2>2, <2>3, NoPage DEF DatesKept, IdsChosen
<1>4. CASE rows[cursor.id].state # "live"
  <2>1. /\ walk' = IF listing.table = "users" THEN "refused" ELSE "read"
        /\ from' = NoCursor /\ restarted' = TRUE
    BY <1>0, <1>4 DEF Lookup
  <2>2. QTypeOK'
    BY <1>0, <2>1 DEF QTypeOK, Shown
  <2>3. WalkConsistent'
    BY <1>0, <1>1, <2>1 DEF WalkConsistent
  <2> QED
    BY <1>0, <2>1, <2>2, <2>3, NoPage DEF DatesKept, IdsChosen
<1> QED
  BY <1>3, <1>4

LEMMA ResolveKeeps ==
  ASSUME QInv, Resolve
  PROVE  QInv'
<1>0. /\ QTypeOK /\ WalkConsistent /\ walk = "resolve"
      /\ walk' \in {"done", "ask", "failed"}
      /\ walk' = "done" => cursor = NoCursor
      /\ walk' = "ask" => cursor # NoCursor
      /\ UNCHANGED <<listing, rows, steady, changes, cursor, from, ids, page, seen, restarted, shortened>>
  BY DEF QInv, Resolve
<1>1. QTypeOK'
  BY <1>0 DEF QTypeOK, Shown
<1>2. WalkConsistent'
  BY <1>0 DEF WalkConsistent
<1> QED
  BY <1>0, <1>1, <1>2, NoPage DEF DatesKept, IdsChosen, Unpaged

LEMMA ProductGoneKeeps ==
  ASSUME QInv, ProductGone
  PROVE  QInv'
<1>0. /\ QTypeOK /\ WalkConsistent /\ walk' = "refused"
      /\ UNCHANGED <<listing, rows, steady, changes, cursor, from, ids, page, seen, restarted, shortened>>
  BY DEF QInv, ProductGone
<1>1. QTypeOK'
  BY <1>0 DEF QTypeOK, Shown
<1>2. WalkConsistent'
  BY <1>0 DEF WalkConsistent
<1> QED
  BY <1>0, <1>1, <1>2, NoPage DEF DatesKept, IdsChosen, Unpaged

\* A page is shown: rows beyond a position, where every steady row beyond it
\* is among them, or comes after all of them and there is a next page.
LEMMA ShowKeeps ==
  ASSUME QInv, NEW S \in SUBSET Ids, NEW f, Leading(f, S), ShowPage(f),
         shortened => shortened', shortened' \in BOOLEAN,
         NEW c \in Positions \cup {NoCursor},
         \/ c = cursor /\ c # NoCursor
         \/ c = NoCursor /\ (seen = <<>> \/ (restarted /\ listing.table = "reviews")),
         \A y \in S : rows[y].state # "none" /\ (c # NoCursor => Beyond(y, c)),
         \A x \in steady : (c # NoCursor => Beyond(x, c)) =>
           x \in S \/ shortened' \/ (HasNextPage(f) /\ \A y \in S : Before(y, x))
  PROVE  QInv'
<1> DEFINE Exempt == restarted /\ listing.table = "reviews"
<1>0. /\ QTypeOK /\ CursorReal /\ WalkConsistent /\ SeenInOrder /\ SeenBehind /\ RestAhead
      /\ cursor \in Positions \cup {NoCursor}
      /\ seen \in Seq(Ids) /\ Len(seen) \in Nat /\ steady \subseteq {x \in Ids : Shown(x)}
      /\ UNCHANGED <<listing, rows, steady, changes, restarted>>
  BY DEF QInv, QTypeOK, ShowPage
<1>2. PICK g, nc : g = PageOf(f) /\ nc = NextCursor(f)
  OBVIOUS
<1>3. /\ seen' = seen \o g /\ cursor' = nc /\ from' = NoCursor /\ ids' = {} /\ walk' = Answered(nc)
  BY <1>2 DEF ShowPage
<1>4. /\ g \in Seq(S) /\ Len(g) \in Nat
      /\ \A i, j \in 1..Len(g) : i < j => Before(g[i], g[j])
      /\ nc = NoCursor => \A y \in S : \E i \in 1..Len(g) : g[i] = y
      /\ nc # NoCursor =>
           /\ Len(g) >= 1 /\ g[Len(g)] \in S /\ nc = CursorOf(g[Len(g)])
           /\ \A y \in S : (\E i \in 1..Len(g) : g[i] = y) \/ Before(g[Len(g)], y)
      /\ nc # NoCursor <=> HasNextPage(f)
  BY <1>0, <1>2, PageFacts
<1>5. S \subseteq Ids /\ \A y \in S : rows[y].state # "none" /\ (c # NoCursor => Beyond(y, c))
  OBVIOUS
<1>6. g \in Seq(Ids)
  BY <1>4, <1>5, SeqMonotonic
<1>7. /\ seen' \in Seq(Ids) /\ Len(seen') = Len(seen) + Len(g)
      /\ \A i \in 1..(Len(seen) + Len(g)) : seen'[i] = IF i <= Len(seen) THEN seen[i] ELSE g[i - Len(seen)]
  BY <1>0, <1>3, <1>6, ConcatProperties
<1>8. \A i \in 1..Len(seen) : i \in 1..Len(seen') /\ seen'[i] = seen[i] /\ seen[i] \in Ids
  BY <1>0, <1>4, <1>7
<1>9. \A i \in 1..Len(g) : Len(seen) + i \in 1..Len(seen') /\ seen'[Len(seen) + i] = g[i] /\ g[i] \in S
  <2> SUFFICES ASSUME NEW i \in 1..Len(g)
               PROVE  Len(seen) + i \in 1..Len(seen') /\ seen'[Len(seen) + i] = g[i] /\ g[i] \in S
    OBVIOUS
  <2>1. PICK o \in Nat, n \in Nat : o = Len(seen) /\ n = Len(g)
    BY <1>0, <1>4
  <2>2. o + i \in 1..(o + n) /\ ~(o + i <= o) /\ (o + i) - o = i
    BY <2>1
  <2>3. seen'[o + i] = g[(o + i) - o]
    BY <1>7, <2>1, <2>2
  <2>4. g[i] \in S
    BY <1>4, ElementOfSeq
  <2> QED
    BY <1>7, <2>1, <2>2, <2>3, <2>4
<1>10. \A i \in 1..Len(seen') : ~(i <= Len(seen)) => i - Len(seen) \in 1..Len(g) /\ seen'[i] = g[i - Len(seen)]
  BY <1>0, <1>4, <1>7
<1>11. ToSet(seen') = ToSet(seen) \cup {g[i] : i \in 1..Len(g)}
  <2>1. DOMAIN seen' = 1..Len(seen') /\ DOMAIN seen = 1..Len(seen)
    BY <1>0, <1>7
  <2>2. ToSet(seen') \subseteq ToSet(seen) \cup {g[i] : i \in 1..Len(g)}
    <3> SUFFICES ASSUME NEW i \in 1..Len(seen') PROVE seen'[i] \in ToSet(seen) \cup {g[k] : k \in 1..Len(g)}
      BY <2>1 DEF ToSet
    <3>1. CASE i <= Len(seen)
      <4>1. i \in 1..Len(seen) /\ seen'[i] = seen[i]
        BY <1>0, <1>7, <3>1
      <4> QED
        BY <2>1, <4>1 DEF ToSet
    <3>2. CASE ~(i <= Len(seen))
      BY <1>10, <3>2
    <3> QED
      BY <3>1, <3>2
  <2>3. ToSet(seen) \cup {g[i] : i \in 1..Len(g)} \subseteq ToSet(seen')
    BY <1>8, <1>9, <2>1 DEF ToSet
  <2> QED
    BY <2>2, <2>3
<1>12. nc \in Positions \cup {NoCursor}
  BY <1>0, <1>4, <1>5, KeyFacts
<1>13. walk' \in {"resolve", "done", "ask"} /\ (walk' = "done" => nc = NoCursor) /\ (walk' = "ask" => nc # NoCursor)
  BY <1>3 DEF Answered
<1>14. QTypeOK'
  BY <1>0, <1>3, <1>7, <1>12, <1>13 DEF QTypeOK, Shown
<1>15. WalkConsistent'
  BY <1>3, <1>13 DEF WalkConsistent
<1>22. IdsChosen'
  BY <1>13 DEF IdsChosen
<1>16. CursorReal'
  <2> SUFFICES ASSUME nc # NoCursor PROVE CursorReal'
    BY <1>3 DEF CursorReal
  <2>1. PICK y \in S : y = g[Len(g)] /\ nc = CursorOf(y) /\ y \in ToSet(seen')
    BY <1>4, <1>11
  <2>2. y \in Ids /\ rows[y].state # "none" /\ nc.id = y /\ (ByDate => nc.key = Trunc(rows[y].at))
    BY <1>0, <1>5, <2>1, KeyFacts
  <2> QED
    BY <1>0, <1>3, <2>1, <2>2 DEF CursorReal, ByDate, Trunc
\* The page starts after what was seen, or at the start of an empty or exempt walk.
<1>17. \/ c = cursor /\ c # NoCursor /\ RealPosition(c)
       \/ c = NoCursor /\ (seen = <<>> \/ Exempt)
  BY <1>0 DEF CursorReal, RealPosition
<1>18. ASSUME ~Exempt, NEW i \in 1..Len(seen), seen[i] \in steady
       PROVE  c \in Positions /\ c # NoCursor /\ RealPosition(c) /\ Passed(seen[i], c)
  <2>1. seen # <<>>
    BY <1>0, <1>18
  <2>2. c = cursor /\ c # NoCursor /\ RealPosition(c)
    BY <1>17, <1>18, <2>1
  <2> QED
    BY <1>0, <1>18, <2>2 DEF SeenBehind, RealPosition
<1>19. SeenInOrder'
  <2> SUFFICES ASSUME NEW i \in 1..Len(seen'), NEW j \in 1..Len(seen'), i < j,
                      {seen'[i], seen'[j]} \subseteq steady, ~Exempt
               PROVE  (\/ Before(seen[i], seen[j])
                       \/ listing.table # "users" /\ SameMillisecond(seen[i], seen[j]) /\ Shares(seen[i]))'
    BY <1>0 DEF SeenInOrder
  <2>1. PICK x \in Ids, y \in Ids : x = seen'[i] /\ y = seen'[j]
    BY <1>7
  <2>2. SUFFICES Before(x, y) \/ (listing.table # "users" /\ SameMillisecond(x, y) /\ Shares(x))
    <3>1. rows' = rows /\ listing' = listing
      BY <1>0
    <3> QED
      BY <2>1, <3>1 DEF Before, SortKey, Precedes, ByDate, SameMillisecond, Trunc, Shares
  <2>3. CASE j <= Len(seen)
    <3>1. i \in 1..Len(seen) /\ j \in 1..Len(seen) /\ x = seen[i] /\ y = seen[j]
      BY <1>0, <1>7, <2>1, <2>3
    <3> QED
      BY <1>0, <2>1, <3>1 DEF SeenInOrder
  <2>4. CASE i <= Len(seen) /\ ~(j <= Len(seen))
    <3>1. i \in 1..Len(seen) /\ x = seen[i]
      BY <1>0, <1>7, <2>1, <2>4
    <3>2. y \in S
      BY <1>9, <1>10, <2>1, <2>4
    <3>3. c # NoCursor /\ RealPosition(c) /\ Passed(x, c)
      BY <1>18, <2>1, <3>1
    <3>4. Beyond(y, c) /\ rows[y].state # "none"
      BY <1>5, <3>2, <3>3
    <3> QED
      BY <1>0, <3>3, <3>4, PassedBeyond
  <2>5. CASE ~(i <= Len(seen))
    <3>1. /\ i - Len(seen) \in 1..Len(g) /\ j - Len(seen) \in 1..Len(g)
          /\ i - Len(seen) < j - Len(seen)
          /\ x = g[i - Len(seen)] /\ y = g[j - Len(seen)]
      BY <1>0, <1>10, <2>1, <2>5
    <3> QED
      BY <1>4, <3>1
  <2> QED
    BY <1>0, <2>3, <2>4, <2>5
<1>20. SeenBehind'
  <2> SUFFICES ASSUME nc # NoCursor, ~Exempt, NEW i \in 1..Len(seen'), seen'[i] \in steady
               PROVE  Passed(seen[i], cursor)'
    BY <1>0, <1>3 DEF SeenBehind
  <2>1. PICK x \in Ids : x = seen'[i]
    BY <1>7
  <2>2. PICK y \in Ids : y = g[Len(g)] /\ y \in S /\ nc = CursorOf(y)
    BY <1>4, <1>5
  <2>3. Passed(x, nc)
    <3>1. CASE i <= Len(seen)
      <4>1. i \in 1..Len(seen) /\ x = seen[i]
        BY <1>0, <1>7, <2>1, <3>1
      <4>2. c # NoCursor /\ RealPosition(c) /\ Passed(x, c)
        BY <1>18, <2>1, <4>1
      <4>3. Beyond(y, c)
        BY <1>5, <2>2, <4>2
      <4> QED
        BY <1>0, <2>2, <4>2, <4>3, PassedOn
    <3>2. CASE ~(i <= Len(seen))
      <4>1. i - Len(seen) \in 1..Len(g) /\ x = g[i - Len(seen)]
        BY <1>10, <2>1, <3>2
      <4>2. x = y \/ Before(x, y)
        BY <1>4, <2>2, <4>1
      <4> QED
        BY <1>0, <2>2, <4>2, BeforePassed
    <3> QED
      BY <3>1, <3>2
  <2>4. nc \in Positions
    BY <1>0, <2>2, KeyFacts
  <2>5. Passed(x, nc)'
    BY <1>0, <2>3, <2>4, SamePosition
  <2> QED
    BY <1>3, <2>1, <2>5
<1>21. RestAhead'
  <2> SUFFICES ASSUME NEW x \in steady, x \notin ToSet(seen'), ~Shares(x)', ~shortened'
               PROVE  (IF cursor = NoCursor THEN walk \in Unpaged ELSE Ahead(x, cursor))'
    BY <1>0 DEF RestAhead, Unpaged
  <2>1. x \in Ids /\ Shown(x) /\ x \notin ToSet(seen) /\ ~(\E i \in 1..Len(g) : g[i] = x)
    BY <1>0, <1>11
  <2>2. ~Shares(x)
    BY <1>0, <2>1, SharesKept DEF DatesKept
  <2>3. c # NoCursor => Beyond(x, c)
    <3> SUFFICES ASSUME c # NoCursor PROVE Beyond(x, c)
      OBVIOUS
    <3>1. c = cursor /\ RealPosition(c) /\ x # c.id
      BY <1>0, <1>17, <2>1 DEF CursorReal
    <3>2. Ahead(x, c)
      BY <1>0, <2>1, <2>2, <3>1 DEF RestAhead
    <3> QED
      BY <1>0, <2>1, <2>2, <3>1, <3>2, AheadBeyond
  <2>4. PICK y \in Ids : y = g[Len(g)] /\ nc # NoCursor /\ nc = CursorOf(y) /\ Before(y, x) /\ rows[y].state # "none"
    <3>1. CASE x \in S
      BY <1>4, <1>5, <2>1, <3>1
    <3>2. CASE HasNextPage(f) /\ \A y \in S : Before(y, x)
      BY <1>4, <1>5, <3>2
    <3> QED
      BY <2>3, <3>1, <3>2
  <2>5. Ahead(x, nc) /\ nc \in Positions
    BY <1>0, <2>1, <2>2, <2>4, AfterIsAhead, KeyFacts
  <2>6. Ahead(x, nc)'
    BY <1>0, <2>1, <2>5, SamePosition
  <2> QED
    BY <1>3, <2>4, <2>6
<1> QED
  BY <1>14, <1>15, <1>16, <1>19, <1>20, <1>21, <1>22 DEF QInv

\* Where a page query starts: after the cursor, or at the start of a walk
\* that has shown nothing or was sent back.
LEMMA StartFacts ==
  ASSUME QInv, QueryReady
  PROVE  /\ Start \in Positions \cup {NoCursor}
         /\ \/ Start = cursor /\ Start # NoCursor
            \/ Start = NoCursor /\ (seen = <<>> \/ (restarted /\ listing.table = "reviews"))
         /\ cursor = NoCursor => walk = "ask" /\ seen = <<>>
         /\ Start = cursor \/ (Start = NoCursor /\ restarted)
<1>1. QTypeOK /\ WalkConsistent
  BY DEF QInv
<1>2. CASE walk = "read"
  BY <1>1, <1>2 DEF Start, WalkConsistent, QTypeOK
<1>3. CASE walk # "read"
  BY <1>1, <1>3 DEF Start, QueryReady, WalkConsistent, QTypeOK
<1> QED
  BY <1>2, <1>3

\* A page is read in one statement.
LEMMA ReadKeeps ==
  ASSUME QInv, ReadPage
  PROVE  QInv'
<1>1. PICK c \in Positions \cup {NoCursor} : c = Start
  BY StartFacts DEF ReadPage
<1>2. PICK S \in SUBSET Ids : S = Found(c)
  BY DEF Found
<1>3. PICK f : f = Fetched(c)
  OBVIOUS
<1>4. QTypeOK /\ steady \subseteq {x \in Ids : Shown(x)} /\ shortened \in BOOLEAN
  BY DEF QInv, QTypeOK
<1>5. Leading(f, S)
  BY <1>2, <1>3, <1>4, FetchedLeads
<1>6. ShowPage(f) /\ shortened' = shortened
  BY <1>1, <1>3 DEF ReadPage
<1>7. \A y \in S : rows[y].state # "none" /\ (c # NoCursor => Beyond(y, c))
  BY <1>2 DEF Found, Shown
<1>8. \A x \in steady : (c # NoCursor => Beyond(x, c)) => x \in S
  BY <1>2, <1>4 DEF Found
<1>9. \/ c = cursor /\ c # NoCursor
      \/ c = NoCursor /\ (seen = <<>> \/ (restarted /\ listing.table = "reviews"))
  BY <1>1, StartFacts DEF ReadPage
<1> QED
  BY <1>4, <1>5, <1>6, <1>7, <1>8, <1>9, ShowKeeps

\* The first statement of a page of reviews.
LEMMA SelectKeeps ==
  ASSUME QInv, SelectIds
  PROVE  QInv'
<1>1. PICK c \in Positions \cup {NoCursor} : c = Start
  BY StartFacts DEF SelectIds
<1>2. PICK S \in SUBSET Ids : S = Found(c)
  BY DEF Found
<1>3. PICK f : f = Fetched(c)
  OBVIOUS
<1>4. QTypeOK /\ WalkConsistent /\ steady \subseteq {x \in Ids : Shown(x)}
  BY DEF QInv, QTypeOK
<1>5. Leading(f, S)
  BY <1>2, <1>3, <1>4, FetchedLeads
<1>6. /\ ids' = ToSet(f) /\ walk' = "rows" /\ from' = c /\ listing.table = "reviews"
      /\ UNCHANGED <<listing, rows, steady, changes, cursor, page, seen, restarted, shortened>>
  BY <1>1, <1>3 DEF SelectIds
<1>7. ToSet(f) \subseteq S
  <2>1. f \in Seq(S)
    BY <1>5 DEF Leading
  <2>2. \A i \in DOMAIN f : f[i] \in S
    BY <2>1
  <2> QED
    BY <2>2 DEF ToSet
<1>8. QTypeOK'
  BY <1>4, <1>6, <1>7 DEF QTypeOK, Shown
<1>9. WalkConsistent'
  BY <1>1, <1>6, StartFacts DEF SelectIds, WalkConsistent
<1>10. IdsChosen'
  <2>1. \A y \in ToSet(f) : rows[y].state # "none" /\ (c # NoCursor => Beyond(y, c))
    BY <1>2, <1>7 DEF Found, Shown
  <2>2. \A x \in steady \ ToSet(f) : (c # NoCursor => Beyond(x, c)) => x \in S
    BY <1>2, <1>4 DEF Found
  <2>3. \A x \in steady \ ToSet(f) : (c # NoCursor => Beyond(x, c)) =>
          Cardinality(ToSet(f)) > listing.limit /\ \A y \in ToSet(f) : Before(y, x)
    BY <1>4, <1>5, <2>2, ChosenFacts
  <2>4. /\ \A y : Beyond(y, c)' <=> Beyond(y, c)
        /\ \A x, y : Before(y, x)' <=> Before(y, x)
    BY <1>6 DEF Beyond, ComparedKey, CursorOf, Precedes, ByDate, Trunc, Before, SortKey
  <2> QED
    BY <1>6, <2>1, <2>3, <2>4 DEF IdsChosen
<1> QED
  BY <1>4, <1>6, <1>8, <1>9, <1>10, NoPage DEF DatesKept, Unpaged

\* The second statement of a page of reviews.
LEMMA ReadRowsKeeps ==
  ASSUME QInv, ReadRows
  PROVE  QInv'
<1>1. /\ QTypeOK /\ WalkConsistent /\ IdsChosen /\ walk = "rows" /\ ids \subseteq Ids
      /\ from \in Positions \cup {NoCursor} /\ shortened \in BOOLEAN
      /\ steady \subseteq {x \in Ids : Shown(x)}
  BY DEF QInv, QTypeOK, ReadRows
<1>2. PICK S \in SUBSET Ids : S = {id \in ids : Shown(id)}
  BY <1>1
<1>3. PICK f : f = Sorted(S)
  OBVIOUS
<1>4. Leading(f, S)
  BY <1>1, <1>3, SortedLeads
<1>5. /\ ShowPage(f)
      /\ shortened' = (shortened \/ (Cardinality(ids) > listing.limit /\ ~HasNextPage(f)))
  BY <1>2, <1>3 DEF ReadRows
<1>6. \A y \in S : rows[y].state # "none" /\ (from # NoCursor => Beyond(y, from))
  BY <1>1, <1>2 DEF IdsChosen
<1>7. \A x \in steady : (from # NoCursor => Beyond(x, from)) =>
        x \in S \/ shortened' \/ (HasNextPage(f) /\ \A y \in S : Before(y, x))
  <2> SUFFICES ASSUME NEW x \in steady, from # NoCursor => Beyond(x, from), x \notin S
               PROVE  shortened' \/ (HasNextPage(f) /\ \A y \in S : Before(y, x))
    OBVIOUS
  <2>1. x \notin ids
    BY <1>1, <1>2
  <2>2. Cardinality(ids) > listing.limit /\ \A y \in ids : Before(y, x)
    BY <1>1, <2>1 DEF IdsChosen
  <2> QED
    BY <1>2, <1>5, <2>2
<1>8. \/ from = cursor /\ from # NoCursor
      \/ from = NoCursor /\ (seen = <<>> \/ (restarted /\ listing.table = "reviews"))
  BY <1>1 DEF WalkConsistent
<1>9. shortened' \in BOOLEAN /\ (shortened => shortened')
  BY <1>1, <1>5
<1> QED
  BY <1>1, <1>4, <1>5, <1>6, <1>7, <1>8, <1>9, ShowKeeps

LEMMA QInvHolds == QSpec => []QInv
<1>1. QInit => QInv
  <2> SUFFICES ASSUME QInit PROVE QInv
    OBVIOUS
  <2>1. seen = <<>> /\ <<>> \in Seq(Ids) /\ Len(seen) = 0 /\ 1..0 = {}
    BY DEF QInit
  <2>2. QTypeOK
    BY <2>1 DEF QInit, QTypeOK
  <2>3. CursorReal /\ WalkConsistent /\ SeenBehind /\ RestAhead /\ IdsChosen
    BY DEF QInit, CursorReal, WalkConsistent, SeenBehind, RestAhead, IdsChosen
  <2>4. SeenInOrder
    BY <2>1 DEF SeenInOrder
  <2> QED
    BY <2>2, <2>3, <2>4 DEF QInv
<1>2. QInv /\ [QNext]_qvars => QInv'
  <2> SUFFICES ASSUME QInv, [QNext]_qvars PROVE QInv'
    OBVIOUS
  <2>1. CASE UNCHANGED qvars
    <3>1. UNCHANGED <<listing, rows, steady, walk, cursor, from, ids, seen, restarted, shortened>>
      BY <2>1 DEF qvars, walkVars
    <3>2. QTypeOK'
      BY <3>1 DEF QInv, QTypeOK, Shown
    <3>3. WalkConsistent'
      BY <3>1 DEF QInv, WalkConsistent
    <3>4. IdsChosen'
      BY <3>1 DEF QInv, IdsChosen, Beyond, ComparedKey, CursorOf, Precedes, ByDate, Trunc, Before, SortKey
    <3> QED
      BY <3>1, <3>2, <3>3, <3>4, NoPage DEF DatesKept
  <2>2. CASE WalkStep
    BY <2>2, LookupKeeps, ProductGoneKeeps, ReadKeeps, SelectKeeps, ReadRowsKeeps, ResolveKeeps
    DEF WalkStep
  <2>3. CASE \E id \in Ids : \/ \E r \in Row : InsertRow(id, r)
                             \/ \E k \in Keys, m \in BOOLEAN : UpdateRow(id, k, m)
                             \/ RemoveRow(id)
    BY <2>3, ChangeKeeps
  <2> QED
    BY <2>1, <2>2, <2>3 DEF QNext
<1> QED
  BY <1>1, <1>2, PTL DEF QSpec

\* Rows that were there all along come in the order of the listing and so at
\* most once, whatever is inserted, changed or removed between two pages; of
\* products, orders and reviews those of one millisecond may come otherwise.
THEOREM AlwaysSeenInOrder == QSpec => []SeenInOrder
<1>1. QInv => SeenInOrder
  BY DEF QInv
<1> QED
  BY <1>1, QInvHolds, PTL

\* A walk that ends has shown every row that was there all along, except one
\* that shares its millisecond with another, and unless a review deleted
\* between the two statements of a page took the cursor with it.
THEOREM NothingEverMissed == QSpec => []NothingMissed
<1>1. QInv => NothingMissed
  BY DEF QInv, WalkConsistent, RestAhead, NothingMissed
<1> QED
  BY <1>1, QInvHolds, PTL
=============================================================================
