----------------------------- MODULE Catalogue -----------------------------
(***************************************************************************)
(* The rows administrators and users edit beside the order flow: products  *)
(* and their images (ProductsService), uploaded files (FilesService,       *)
(* S3Service), avatars, profiles and roles (UsersService) and reviews      *)
(* (ReviewsService).                                                       *)
(*                                                                         *)
(* These services load an entity, change it and call TypeORM's save, which *)
(* reads the row again and updates every column in which the entity        *)
(* differs from it: also a column this request never touched and another   *)
(* one has changed since the load.  No transaction spans the steps.        *)
(***************************************************************************)
EXTENDS Integers, FiniteSets

CONSTANTS
  Products, Files, Users,
  Requests,     \* requests that take more than one statement
  Bodies,       \* what the modelled requests ask for
  None,         \* SQL NULL, or no such row
  MaxStock,     \* bound: products.stock
  Ratings,      \* the ratings reviews are given, within 1..5
  MaxStatements \* bound: single-statement changes beside the requests

Columns == [product |-> {"stock", "active", "main", "gone"},
            file    |-> {"owner", "status", "entity"},
            user    |-> {"name", "role", "avatar", "deleted"}]

ProductRow == [stock : 0..MaxStock, active : BOOLEAN, main : Files \cup {None}, gone : BOOLEAN]

FileRow == [owner : Users, status : {"PENDING", "READY"}, entity : Products \cup {None}]

UserRow == [name : {"old", "new"}, role : {"user", "admin"}, avatar : Files \cup {None},
            deleted : BOOLEAN]

ReviewRow(i) == [id : {i}, user : Users, product : Products, rating : Ratings]

ProductOps == {"patch", "addImage", "removeImage", "setMain"}

UserOps == {"complete", "avatar", "profile"}

ReviewOps == {"createReview", "updateReview", "deleteReview"}

ASSUME CatalogueAssumption ==
  /\ MaxStock \in Nat /\ MaxStatements \in Nat
  /\ Ratings \subseteq 1..5
  /\ None \notin Files \cup Products \cup Users
  /\ None \notin ProductRow \cup FileRow \cup UserRow
  /\ \A b \in Bodies :
       \/ b.op = "patch" /\ b.product \in Products /\ b.set \in {"stock", "active"}
       \/ b.op \in ProductOps \ {"patch"} /\ b.product \in Products /\ b.file \in Files
       \/ b.op \in UserOps /\ b.user \in Users /\ (b.op # "profile" => b.file \in Files)
       \/ b.op \in ReviewOps /\ b.user \in Users /\ b.product \in Products /\ b.rating \in Ratings

VARIABLES
  product, file, user,   \* the tables (None: not created)
  reviews, lastId,       \* product_reviews, and the last id given
  objects,               \* the files whose bytes are in the bucket
  pc, req,               \* where each request stands, and its body
  mem, memFile,          \* the product, user or review, and the file, it has loaded
  dirty,                 \* the columns its save found different
  stale,                 \* history: columns of its rows others changed since it began
  statements             \* single-statement changes so far

tables == <<product, file, user, reviews, lastId, objects>>

locals == <<mem, memFile, dirty>>

kvars == <<tables, pc, req, locals, stale, statements>>

Done == {"answered", "failed"}

\* The behaviour starts in what earlier requests left: files not created,
\* waiting for their bytes, uploaded or completed, and shown or not.
\* Some of the requests are over already.
KInit ==
  /\ file \in [Files -> FileRow \cup {None}]
  /\ objects \in SUBSET {f \in Files : file[f] # None}
  /\ \A f \in Files : file[f] # None /\ file[f].status = "READY" => f \in objects
  /\ product \in [Products -> {None} \cup
       {p \in ProductRow : p.stock = MaxStock /\ p.active /\ ~p.gone}]
  /\ \A p \in Products : product[p] # None /\ product[p].main # None =>
       LET f == file[product[p].main] IN f # None /\ f.status = "READY" /\ f.entity = p
  /\ user \in [Users -> {u \in UserRow : u.name = "old" /\ u.role = "user" /\ u.avatar = None
                                          /\ ~u.deleted}]
  /\ lastId = 1
  /\ reviews \in {{}} \cup {{v} : v \in ReviewRow(lastId)}
  /\ pc \in [Requests -> {"new", "answered"}]
  /\ mem = [r \in Requests |-> None]
  /\ memFile = [r \in Requests |-> None]
  /\ dirty = [r \in Requests |-> {}]
  /\ stale = [r \in Requests |-> {}]
  /\ statements = 0

-----------------------------------------------------------------------------
(* Shared pieces *)

Goto(r, label) == pc' = [pc EXCEPT ![r] = label]

Go(r, label) == Goto(r, label) /\ UNCHANGED <<tables, locals>>

Keep(r, entity, label) ==
  /\ mem' = [mem EXCEPT ![r] = entity]
  /\ Goto(r, label)
  /\ UNCHANGED <<tables, memFile, dirty>>

KeepFile(r, entity, label) ==
  /\ memFile' = [memFile EXCEPT ![r] = entity]
  /\ Goto(r, label)
  /\ UNCHANGED <<tables, mem, dirty>>

P(r) == req[r].product
F(r) == req[r].file
U(r) == req[r].user

\* The product is found: the soft-deleted ones are not.
Live(p) == product[p] # None /\ ~product[p].gone

OnProduct(r) == req[r].op \in ProductOps

\* The committed product or user row the request is about.
MainRow(r) == IF OnProduct(r) THEN product[P(r)] ELSE user[U(r)]

\* Columns of entity e that differ from the row, and the row with them set.
Differ(e, row, cols) == {c \in cols : e[c] # row[c]}

Merge(e, row, cols) == [c \in DOMAIN row |-> IF c \in cols THEN e[c] ELSE row[c]]

-----------------------------------------------------------------------------
(* Single statements *)

\* createPresignedUpload: the record comes before the bytes.
CreatePresignedUpload(u, f, e) ==
  /\ file[f] = None
  /\ file' = [file EXCEPT ![f] = [owner |-> u, status |-> "PENDING", entity |-> e]]
  /\ UNCHANGED <<product, user, reviews, lastId, objects, pc, locals>>

\* The client PUTs the bytes with the presigned URL.
PutObject(f) ==
  /\ file[f] # None /\ f \notin objects
  /\ objects' = objects \cup {f}
  /\ UNCHANGED <<product, file, user, reviews, lastId, pc, locals>>

\* ProductsService.create, remove (soft delete), and the stock an order takes.
CreateProduct(p) ==
  /\ product[p] = None
  /\ product' = [product EXCEPT ![p] = [stock |-> 0, active |-> TRUE, main |-> None,
                                        gone |-> FALSE]]
  /\ UNCHANGED <<file, user, reviews, lastId, objects, pc, locals>>

RemoveProduct(p) ==
  /\ Live(p)
  /\ product' = [product EXCEPT ![p].gone = TRUE]
  /\ UNCHANGED <<file, user, reviews, lastId, objects, pc, locals>>

SellProduct(p) ==
  /\ Live(p) /\ product[p].stock > 0
  /\ product' = [product EXCEPT ![p].stock = @ - 1]
  /\ UNCHANGED <<file, user, reviews, lastId, objects, pc, locals>>

\* updateRoles, removeAvatar and remove: UPDATEs of single columns.
UpdateUser(u) ==
  /\ \/ user[u].role = "user" /\ user' = [user EXCEPT ![u].role = "admin"]
     \/ user[u].avatar # None /\ user' = [user EXCEPT ![u].avatar = None]
     \/ ~user[u].deleted /\ user' = [user EXCEPT ![u].deleted = TRUE]
  /\ UNCHANGED <<product, file, reviews, lastId, objects, pc, locals>>

-----------------------------------------------------------------------------
(* Loading *)

\* A variant of Patched: the fields the body leaves out get their defaults.
Patched_Defaults(r) == [stock |-> 0, active |-> req[r].set = "stock", main |-> None,
                        gone |-> FALSE]

\* Object.assign(product, omitUndefined(dto)): the body sets one column.
Patched(r) == IF req[r].set = "stock" THEN [product[P(r)] EXCEPT !.stock = MaxStock]
                                       ELSE [product[P(r)] EXCEPT !.active = FALSE]

\* findProductOrFail, which opens every operation on a product.
FindProduct(r) ==
  /\ pc[r] = "new" /\ req[r].op \in ProductOps \cup ReviewOps
  /\ IF ~Live(P(r)) THEN Go(r, "failed")
     ELSE \/ req[r].op = "patch" /\ Keep(r, Patched(r), "diff")
          \/ req[r].op \in ProductOps \ {"patch"} /\ Go(r, "file")
          \/ req[r].op \in ReviewOps /\ Go(r, "find")

\* findUserOrFail in setAvatar and updateProfile.
FindUser(r) ==
  /\ pc[r] = "new" /\ req[r].op \in {"avatar", "profile"}
  /\ \/ user[U(r)].deleted /\ Go(r, "failed")
     \/ ~user[U(r)].deleted /\ req[r].op = "avatar" /\ Keep(r, user[U(r)], "file")
     \/ ~user[U(r)].deleted /\ req[r].op = "profile"
        /\ Keep(r, [user[U(r)] EXCEPT !.name = "new"], "diff")

Exists(r) == file[F(r)] # None

Ready(r) == Exists(r) /\ file[F(r)].status = "READY"

\* addImage: a READY file that belongs to no other entity.
FileForAdd(r) ==
  /\ pc[r] = "file" /\ req[r].op = "addImage"
  /\ IF Ready(r) /\ file[F(r)].entity \in {None, P(r)}
       THEN IF file[F(r)].entity = P(r)
              THEN Go(r, "answered")
              ELSE KeepFile(r, [file[F(r)] EXCEPT !.entity = P(r)], "diffFile")
       ELSE Go(r, "failed")

\* removeImage: a file of the product in any status.
FileForRemove(r) ==
  /\ pc[r] = "file" /\ req[r].op = "removeImage"
  /\ IF Exists(r) /\ file[F(r)].entity = P(r)
       THEN KeepFile(r, [file[F(r)] EXCEPT !.entity = None], "diffFile")
       ELSE Go(r, "failed")

MayBeMain(r) == Ready(r) /\ file[F(r)].entity = P(r)

\* setMainImage: a READY file of the product.
FileForMain(r) ==
  /\ pc[r] = "file" /\ req[r].op = "setMain"
  /\ IF MayBeMain(r) THEN Go(r, "reload") ELSE Go(r, "failed")

\* associateMainImage loads the product again.
ReloadProduct(r) ==
  /\ pc[r] = "reload"
  /\ IF Live(P(r))
       THEN Keep(r, [product[P(r)] EXCEPT !.main = F(r)], "diff")
       ELSE Go(r, "failed")

\* checkIsOwner
IsOwner(r) == file[F(r)].owner = U(r)

\* completeUpload and prepareFileForEntity: the record and its owner.
FileForUser(r) ==
  /\ \/ pc[r] = "file" /\ req[r].op = "avatar"
     \/ pc[r] = "new" /\ req[r].op = "complete"
  /\ IF Exists(r) /\ IsOwner(r)
       THEN IF Ready(r) /\ req[r].op = "complete"
              THEN Go(r, "answered")
              ELSE KeepFile(r, file[F(r)], "head")
       ELSE Go(r, "failed")

\* A variant of Uploaded: the client's word is taken for it.
Uploaded_Trusted(f) == TRUE

\* checkFileExists
Uploaded(f) == f \in objects

WithAvatar(r) == [mem[r] EXCEPT !.avatar = F(r)]

\* After checkFileExists: PENDING is made READY and saved.
HeadObject(r) ==
  /\ pc[r] = "head"
  /\ \/ ~Uploaded(F(r)) /\ Go(r, "failed")
     \/ /\ Uploaded(F(r)) /\ memFile[r].status = "PENDING"
        /\ KeepFile(r, [memFile[r] EXCEPT !.status = "READY"], "diffFile")
     \/ /\ Uploaded(F(r)) /\ memFile[r].status = "READY"
        /\ Keep(r, WithAvatar(r), "diff")

-----------------------------------------------------------------------------
(* Saving *)

\* save(fileRecord): the comparison with the row, then the UPDATE.
DiffFile(r) ==
  /\ pc[r] = "diffFile"
  /\ dirty' = [dirty EXCEPT ![r] = Differ(memFile[r], file[F(r)], Columns.file)]
  /\ Goto(r, "writeFile")
  /\ UNCHANGED <<tables, mem, memFile>>

\* A variant of AfterFile: the main image is left as it is.
AfterFile_KeepMain(r) == IF req[r].op = "avatar" THEN "diff" ELSE "answered"

AfterFile(r) == CASE req[r].op = "removeImage" -> "unlink"
                  [] req[r].op = "avatar" -> "diff"
                  [] OTHER -> "answered"

WriteFile(r) ==
  /\ pc[r] = "writeFile"
  /\ file' = [file EXCEPT ![F(r)] = Merge(memFile[r], @, dirty[r])]
  /\ mem' = [mem EXCEPT ![r] = IF req[r].op = "avatar" THEN WithAvatar(r) ELSE @]
  /\ Goto(r, AfterFile(r))
  /\ UNCHANGED <<product, user, reviews, lastId, objects, memFile, dirty>>

\* removeImage: the main image goes if it was this one.
Unlink(r) ==
  /\ pc[r] = "unlink"
  /\ product' = [product EXCEPT ![P(r)].main = IF @ = F(r) THEN None ELSE @]
  /\ Goto(r, "answered")
  /\ UNCHANGED <<file, user, reviews, lastId, objects, locals>>

\* save(product) and save(user).
Diff(r) ==
  /\ pc[r] = "diff"
  /\ dirty' = [dirty EXCEPT ![r] =
                 Differ(mem[r], MainRow(r), IF OnProduct(r) THEN Columns.product ELSE Columns.user)]
  /\ Goto(r, "write")
  /\ UNCHANGED <<tables, mem, memFile>>

Write(r) ==
  /\ pc[r] = "write"
  /\ IF OnProduct(r)
       THEN /\ product' = [product EXCEPT ![P(r)] = Merge(mem[r], @, dirty[r])]
            /\ UNCHANGED user
       ELSE /\ user' = [user EXCEPT ![U(r)] = Merge(mem[r], @, dirty[r])]
            /\ UNCHANGED product
  /\ Goto(r, "answered")
  /\ UNCHANGED <<file, reviews, lastId, objects, locals>>

-----------------------------------------------------------------------------
(* Reviews *)

Mine(r) == {v \in reviews : v.user = U(r) /\ v.product = P(r)}

ById(i) == {v \in reviews : v.id = i}

\* The lookup of the caller's review of the product.
FindReview(r) ==
  /\ pc[r] = "find"
  /\ \/ req[r].op = "createReview" /\ Go(r, IF Mine(r) = {} THEN "insertReview" ELSE "failed")
     \/ req[r].op # "createReview" /\ Mine(r) = {} /\ Go(r, "failed")
     \/ req[r].op = "updateReview" /\ \E v \in Mine(r) :
          Keep(r, [v EXCEPT !.rating = req[r].rating], "diffReview")
     \/ req[r].op = "deleteReview" /\ \E v \in Mine(r) : Keep(r, v, "deleteReview")

\* A variant of Unreviewed: there is no unique constraint.
Unreviewed_NoConstraint(r) == TRUE

\* UQ_product_reviews_user_product
Unreviewed(r) == Mine(r) = {}

PutReviews(r, rs, label) ==
  /\ reviews' = rs
  /\ Goto(r, label)
  /\ UNCHANGED <<product, file, user, objects, locals>>

InsertReview(r) ==
  /\ pc[r] = "insertReview"
  /\ IF Unreviewed(r)
       THEN /\ lastId' = lastId + 1
            /\ PutReviews(r, reviews \cup {[id |-> lastId', user |-> U(r), product |-> P(r),
                                            rating |-> req[r].rating]}, "answered")
       ELSE Go(r, "failed")

\* save(review): a row deleted since the load is inserted again, with its id.
DiffReview(r) ==
  /\ pc[r] = "diffReview"
  /\ Go(r, IF ById(mem[r].id) = {} THEN "reinsertReview" ELSE "updateReview")

UpdateReview(r) ==
  /\ pc[r] = "updateReview"
  /\ PutReviews(r, {IF v.id = mem[r].id THEN mem[r] ELSE v : v \in reviews}, "answered")
  /\ UNCHANGED lastId

ReinsertReview(r) ==
  /\ pc[r] = "reinsertReview"
  /\ IF Unreviewed(r)
       THEN PutReviews(r, reviews \cup {mem[r]}, "answered") /\ UNCHANGED lastId
       ELSE Go(r, "failed")

DeleteReview(r) ==
  /\ pc[r] = "deleteReview"
  /\ PutReviews(r, reviews \ ById(mem[r].id), "answered")
  /\ UNCHANGED lastId

-----------------------------------------------------------------------------
\* A statement or the call of S3 fails, or the process dies.
Fails(r) == pc[r] \notin Done \cup {"new"} /\ Go(r, "failed")

RequestStep(r) ==
  \/ FindProduct(r) \/ FindUser(r) \/ FileForAdd(r) \/ FileForRemove(r) \/ FileForMain(r)
  \/ ReloadProduct(r) \/ FileForUser(r) \/ HeadObject(r) \/ DiffFile(r) \/ WriteFile(r)
  \/ Unlink(r) \/ Diff(r) \/ Write(r)
  \/ FindReview(r) \/ InsertReview(r) \/ DiffReview(r) \/ UpdateReview(r)
  \/ ReinsertReview(r) \/ DeleteReview(r)

Statement ==
  \/ \E u \in Users, f \in Files, e \in Products \cup {None} : CreatePresignedUpload(u, f, e)
  \/ \E f \in Files : PutObject(f)
  \/ \E p \in Products : CreateProduct(p) \/ RemoveProduct(p) \/ SellProduct(p)
  \/ \E u \in Users : UpdateUser(u)

\* The columns of the rows request r works on that this step changes.
RowsOf(r) ==
  [main |-> IF req[r].op \in ReviewOps THEN None ELSE MainRow(r),
   file |-> IF req[r].op \in {"patch", "profile"} \cup ReviewOps THEN None ELSE file[F(r)]]

Moved(before, after) == IF before = None \/ after = None THEN {}
                         ELSE {c \in DOMAIN before : before[c] # after[c]}

Track ==
  stale' = [r \in Requests |->
              IF pc'[r] # pc[r] \/ pc[r] = "new" THEN stale[r]
              ELSE stale[r] \cup Moved(RowsOf(r).main, RowsOf(r)'.main)
                            \cup Moved(RowsOf(r).file, RowsOf(r)'.file)]

Next ==
  /\ \/ \E r \in Requests : (RequestStep(r) \/ Fails(r)) /\ UNCHANGED statements
     \/ Statement /\ statements < MaxStatements /\ statements' = statements + 1
  /\ UNCHANGED req
  /\ Track

KSpec == KInit /\ req \in [Requests -> Bodies] /\ [][Next]_kvars

-----------------------------------------------------------------------------
(* Properties *)

\* getFileUrl and getPresignedUrlForFileId ask for a READY record.
Downloadable(f) == file[f] # None /\ file[f].status = "READY"

\* findById and listImages: the READY records of the product.
ImagesOf(p) == {f \in Files : Downloadable(f) /\ file[f].entity = p}

\* resolveMainImageUrl: the record the product names, its own or not.
MainImageOf(p) == {f \in Files : Downloadable(f) /\ product[p].main = f}

\* resolveAvatarUrl, for getProfile and the administrators' findById.
AvatarOf(u) == {f \in Files : Downloadable(f) /\ user[u].avatar = f}

\* getFileById asks for the owner and not for the status.
OwnedBy(u) == {f \in Files : file[f] # None /\ file[f].owner = u}

\* User u can be given a link to the bytes of f: everybody sees the products,
\* an administrator the users too.
LinkGiven(u, f) ==
  \/ \E p \in Products : Live(p) /\ f \in ImagesOf(p) \cup MainImageOf(p)
  \/ \E v \in Users : ~user[v].deleted /\ f \in AvatarOf(v)
  \/ f \in OwnedBy(u)

\* What a product or a user shows is an uploaded file, whichever requests
\* raced to set it, and although stale saves may take a READY record back to
\* PENDING; a link to bytes that are not there is given to nobody but the owner
\* of a record still PENDING, by getFileById (setMainImage, setAvatar,
\* completeUpload, getFileUrl, getFileById).
ShownImagesExist ==
  \A f \in Files \ objects :
    /\ \A p \in Products : product[p] # None => product[p].main # f
    /\ \A u \in Users : /\ user[u].avatar # f
                        /\ LinkGiven(u, f) => file[f].owner = u /\ file[f].status = "PENDING"

\* A main image that is no image of the product any more is the doing of a
\* removal that stopped half-way, or of a request whose rows were changed
\* under it; requests that do not overlap and do not fail never leave one
\* behind (removeImage, setMainImage, update).
DanglingMainNeedsRace ==
  \A p \in Products :
    product[p] # None /\ product[p].main # None /\ file[product[p].main].entity # p =>
      \/ \E r \in Requests : req[r].op = "removeImage" /\ pc[r] \in {"unlink", "failed"}
      \/ \E r \in Requests : stale[r] # {}

\* A user has one review of a product, with creations racing each other and
\* updates racing deletions (createReview, updateReview, deleteReview).
OneReviewPerUser ==
  \A v, w \in reviews : v.user = w.user /\ v.product = w.product => v = w

\* The columns a request is meant to write.
Named(r) == CASE req[r].op = "patch" -> {req[r].set}
              [] req[r].op = "setMain" -> {"main"}
              [] req[r].op = "profile" -> {"name"}
              [] req[r].op = "avatar" -> {"avatar"}
              [] OTHER -> {}

\* A save changes a column its request does not name only where somebody
\* else changed the row after the request began: no overlap, no lost update
\* (update, associateMainImage, setAvatar, updateProfile).
OnlyRacesOverwrite ==
  [][\A r \in Requests : pc[r] = "write" /\ pc'[r] = "answered" =>
       Moved(MainRow(r), MainRow(r)') \subseteq Named(r) \cup stale[r]]_kvars

-----------------------------------------------------------------------------
(* The inductive invariant behind the theorems of CatalogueProofs *)

AnyReview == [id : Nat, user : Users, product : Products, rating : Ratings]

Saving == {"diff", "write"}

SavingFile == {"diffFile", "writeFile"}

WithFile == {"head"} \cup SavingFile

WithReview == {"diffReview", "updateReview", "reinsertReview", "deleteReview"}

KLabels == {"new", "file", "reload", "unlink", "find", "insertReview"} \cup Done \cup Saving
             \cup WithFile \cup WithReview

Begun(r) == pc[r] \notin Done \cup {"new"}

KTypeOK ==
  /\ product \in [Products -> ProductRow \cup {None}]
  /\ file \in [Files -> FileRow \cup {None}]
  /\ user \in [Users -> UserRow]
  /\ reviews \subseteq AnyReview
  /\ lastId \in Nat
  /\ objects \subseteq Files
  /\ pc \in [Requests -> KLabels]
  /\ req \in [Requests -> Bodies]
  /\ mem \in [Requests -> ProductRow \cup UserRow \cup AnyReview \cup {None}]
  /\ memFile \in [Requests -> FileRow \cup {None}]
  /\ DOMAIN dirty = Requests /\ DOMAIN stale = Requests

\* Every place belongs to the operations that reach it; there the request has
\* its entities in memory, and their rows are there, deleted or not.
Placed(r) ==
  /\ pc[r] = "file" => req[r].op \in {"addImage", "removeImage", "setMain", "avatar"}
  /\ pc[r] = "reload" => req[r].op = "setMain"
  /\ pc[r] = "head" => req[r].op \in {"avatar", "complete"}
  /\ pc[r] \in SavingFile => req[r].op \in {"addImage", "removeImage", "avatar", "complete"}
  /\ pc[r] = "unlink" => req[r].op = "removeImage"
  /\ pc[r] \in Saving => req[r].op \in {"patch", "setMain", "avatar", "profile"}
  /\ pc[r] \in {"find", "insertReview"} \cup WithReview => req[r].op \in ReviewOps
  /\ Begun(r) /\ OnProduct(r) => product[P(r)] # None
  /\ pc[r] \in Saving /\ OnProduct(r) => mem[r] \in ProductRow
  /\ Begun(r) /\ req[r].op \in {"avatar", "profile"} => mem[r] \in UserRow
  /\ pc[r] \in WithFile => memFile[r] \in FileRow /\ file[F(r)] # None
  /\ pc[r] = "head" /\ req[r].op = "complete" => memFile[r].status = "PENDING"
  /\ pc[r] \in WithReview => mem[r] \in AnyReview /\ mem[r].user = U(r) /\ mem[r].product = P(r)

\* The columns of the file record a request is meant to write.
NamedFile(r) == IF OnProduct(r) THEN {"entity"} ELSE {"status"}

\* What a request has in memory is what the rows hold, but for the columns it
\* names and for those others have changed since.
Fresh(r) ==
  /\ pc[r] \in Saving /\ OnProduct(r) =>
       \A c \in Columns.product \ (Named(r) \cup stale[r]) : mem[r][c] = product[P(r)][c]
  /\ Begun(r) /\ req[r].op \in {"avatar", "profile"} =>
       \A c \in Columns.user \ (Named(r) \cup stale[r]) : mem[r][c] = user[U(r)][c]
  /\ pc[r] \in WithFile =>
       \A c \in Columns.file \ (NamedFile(r) \cup stale[r]) : memFile[r][c] = file[F(r)][c]
  /\ "entity" \notin stale[r] =>
       /\ req[r].op = "setMain" /\ pc[r] \in {"reload"} \cup Saving =>
            file[F(r)] # None /\ file[F(r)].entity = P(r)
       /\ req[r].op = "addImage" /\ pc[r] \in SavingFile => file[F(r)].entity = None
       /\ req[r].op = "removeImage" /\ pc[r] \in SavingFile => file[F(r)].entity = P(r)

\* A copy in memory shows uploaded files only.
CopyUploaded(r) ==
  /\ req[r].op = "setMain" /\ pc[r] \in {"reload"} \cup Saving => F(r) \in objects
  /\ pc[r] \in Saving /\ OnProduct(r) => mem[r].main \in objects \cup {None}
  /\ Begun(r) /\ req[r].op \in {"avatar", "profile"} => mem[r].avatar \in objects \cup {None}
  /\ pc[r] \in WithFile /\ memFile[r].status = "READY" => F(r) \in objects
  /\ pc[r] \in SavingFile /\ ~OnProduct(r) => F(r) \in objects
  /\ req[r].op = "setMain" /\ pc[r] \in Saving => mem[r].main = F(r)

RowsUploaded ==
  /\ \A f \in objects : file[f] # None
  /\ \A f \in Files : Downloadable(f) => f \in objects
  /\ \A p \in Products : product[p] # None => product[p].main \in objects \cup {None}
  /\ \A u \in Users : user[u].avatar \in objects \cup {None}

\* An id stands for one review, in the table and in memory, and for one user
\* and product.
ReviewIds ==
  /\ OneReviewPerUser
  /\ \A v \in reviews : v.id <= lastId
  /\ \A v, w \in reviews : v.id = w.id => v = w
  /\ \A r \in Requests : pc[r] \in WithReview =>
       /\ mem[r].id <= lastId
       /\ \A v \in reviews : v.id = mem[r].id => v.user = U(r) /\ v.product = P(r)
       /\ \A s \in Requests : pc[s] \in WithReview /\ mem[s].id = mem[r].id =>
            U(s) = U(r) /\ P(s) = P(r)

\* A main image that is no image of its product has its own removal at work,
\* stopped half-way, or some request was overtaken.
RemovalUnderWay(p, f) ==
  \E r \in Requests : /\ req[r].op = "removeImage" /\ P(r) = p /\ F(r) = f
                      /\ pc[r] \in {"unlink", "failed"}

Overtaken == \E r \in Requests : stale[r] # {}

MainsLinked ==
  \A p \in Products, f \in Files :
    product[p] # None /\ product[p].main = f /\ file[f].entity # p =>
      RemovalUnderWay(p, f) \/ Overtaken

KIInv ==
  /\ KTypeOK /\ RowsUploaded /\ ReviewIds /\ MainsLinked
  /\ \A r \in Requests : Placed(r) /\ Fresh(r) /\ CopyUploaded(r)
=============================================================================
