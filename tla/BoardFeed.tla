------------------------------ MODULE BoardFeed ------------------------------
(***************************************************************************)
(* The board: CreatePost and ListPosts of services/board (use case and     *)
(* repo/mysql/post_repo.go), read page by page by the Board screen of the  *)
(* web client or any client that follows next_page_after.                  *)
(*                                                                         *)
(* MySQL hands out ids before the INSERTs commit, so that posts may become *)
(* visible out of order.  The authors table of the LEFT JOIN is filled by  *)
(* user replication, of which only the promise (ReadModel) is used here.   *)
(***************************************************************************)
EXTENDS Integers, Sequences, SequencesExt

CONSTANTS
    User,             \* users of the identity service
    Sizes,            \* page sizes clients ask for; the web client leaves it 0
    defaultPageSize,
    maxPageSize,
    MaxPosts          \* bound: ids handed out

ASSUME PageSizeAssumption ==
    /\ defaultPageSize \in Nat \ {0} /\ maxPageSize \in Nat \ {0}
    /\ defaultPageSize <= maxPageSize
    /\ Sizes \subseteq Int
ASSUME MaxPostsAssumption == MaxPosts \in Nat

VARIABLES
    signedUp, known,   \* user replication
    nextId,            \* AUTO_INCREMENT
    open,              \* INSERTs that have not committed: id -> author
    posts,             \* the rows of the posts table: id -> author
    submitted,         \* the id of the createPost the screen waits for, or 0
    size,              \* the page size this client asks for
    load,              \* the list requests in progress, by what sent them
    list,              \* the ids on the screen
    cursor,            \* nextPageAfter
    busy,              \* the buttons are disabled
    \* History
    base,              \* ids in the table when the first page on the screen was read
    crossed            \* "Load more" was pressed with another page on its way

replication == <<signedUp, known>>
table == <<nextId, open, posts>>
view == <<list, cursor, base>>
screen == <<view, submitted, load, busy, crossed>>
vars == <<replication, table, size, screen>>

Authors == INSTANCE ReadModel WITH UserId <- User

Id == 1..MaxPosts

\* Who calls load: the effect that runs when the screen is mounted, or a
\* button; busy admits one button at a time and the effect does not touch it.
Caller == {"mount", "button"}

\* A list request: sent with a cursor, answered with a page.
NoLoad == [pc |-> "idle", after |-> 0, page |-> <<>>, next |-> 0, seen |-> {}]
Sent(after) == [NoLoad EXCEPT !.pc = "sent", !.after = after]

TypeOK ==
    /\ known \subseteq signedUp /\ signedUp \subseteq User
    /\ nextId \in 1..(MaxPosts + 1)
    /\ DOMAIN open \cup DOMAIN posts \subseteq 1..(nextId - 1)
    /\ \A i \in DOMAIN open : open[i] \in signedUp
    /\ \A i \in DOMAIN posts : posts[i] \in signedUp
    /\ submitted \in 0..MaxPosts
    /\ size \in Sizes
    /\ DOMAIN load = Caller
    /\ \A l \in Caller :
            /\ load[l].pc \in {"idle", "sent", "answered"}
            /\ {load[l].after, load[l].next} \subseteq 0..MaxPosts
            /\ Range(load[l].page) \subseteq DOMAIN posts /\ Len(load[l].page) <= maxPageSize
            /\ load[l].seen \subseteq DOMAIN posts
    /\ Range(list) \cup base \subseteq DOMAIN posts
    /\ cursor \in 0..MaxPosts
    /\ {busy, crossed} \subseteq BOOLEAN
    /\ busy <=> (submitted # 0 \/ load["button"] # NoLoad)

\* The screen is mounted and loads the first page.
Init ==
    /\ Authors!ReadModelInit
    /\ nextId = 1 /\ open = <<>> /\ posts = <<>>
    /\ submitted = 0
    /\ size \in Sizes
    /\ load = [l \in Caller |-> IF l = "mount" THEN Sent(0) ELSE NoLoad]
    /\ list = <<>> /\ cursor = 0 /\ base = {}
    /\ busy = FALSE /\ crossed = FALSE

SignUp(u) == Authors!SignUp(u) /\ UNCHANGED <<table, size, screen>>
Replicate(u) == Authors!Replicate(u) /\ UNCHANGED <<table, size, screen>>

-----------------------------------------------------------------------------
(* CreatePost: a token's subject, which the interceptor has verified, is a *)
(* user that signed up; what Validate refuses never gets to the table.     *)

WithRow(rows, i, u) == [j \in DOMAIN rows \cup {i} |-> IF j = i THEN u ELSE rows[j]]

Insert(u) ==
    /\ u \in signedUp
    /\ nextId <= MaxPosts
    /\ open' = WithRow(open, nextId, u)
    /\ nextId' = nextId + 1
    /\ UNCHANGED posts

InsertDone(i, done) ==
    /\ i \in DOMAIN open
    /\ open' = [j \in DOMAIN open \ {i} |-> open[j]]
    /\ posts' = IF done THEN WithRow(posts, i, open[i]) ELSE posts
    /\ UNCHANGED <<replication, nextId, size, screen>>

Commit(i) == InsertDone(i, TRUE)
Abort(i) == InsertDone(i, FALSE)

\* Someone else writes a post.
CreatePost(u) == Insert(u) /\ UNCHANGED <<replication, size, screen>>

-----------------------------------------------------------------------------
(* ListPosts.                                                              *)

\* Mutant: the maximum is not enforced.
PageSize_NoMax(n) == IF n <= 0 THEN defaultPageSize ELSE n

PageSize(n) ==
    IF n <= 0 THEN defaultPageSize
    ELSE IF n > maxPageSize THEN maxPageSize ELSE n

Descends(s) == \A m, n \in DOMAIN s : m < n => s[m] > s[n]

\* ORDER BY id DESC: there is one such sequence.
Descending(S) == CHOOSE s \in [1..Cardinality(S) -> S] : Range(s) = S /\ Descends(s)

\* Mutant: JOIN and not LEFT JOIN.
Before_InnerJoin(after) == {i \in DOMAIN posts : posts[i] \in known /\ (after = 0 \/ i < after)}

\* The rows the SELECT ranges over; after = 0 starts from the newest.  Posts
\* of authors that have not been replicated yet are there, without a nickname.
Before(after) == {i \in DOMAIN posts : after = 0 \/ i < after}

List(after, limit) ==
    LET rows == Descending(Before(after)) IN
    SubSeq(rows, 1, IF Len(rows) < limit THEN Len(rows) ELSE limit)

\* A full page may have a successor.
NextAfter(page, limit) == IF Len(page) = limit THEN Last(page) ELSE 0

ListPosts(l) ==
    LET limit == PageSize(size)
        page == List(load[l].after, limit) IN
    /\ load[l].pc = "sent"
    /\ load' = [load EXCEPT ![l] = [@ EXCEPT !.pc = "answered", !.page = page,
                    !.next = NextAfter(page, limit),
                    !.seen = IF load[l].after = 0 THEN DOMAIN posts ELSE {}]]
    /\ UNCHANGED <<replication, table, size, view, submitted, busy, crossed>>

-----------------------------------------------------------------------------
(* The screen.                                                             *)

StartLoad(after) == load' = [load EXCEPT !["button"] = Sent(after)]

\* Mutant: no finally.
EndLoad_KeepsBusy(l) == load' = [load EXCEPT ![l] = NoLoad] /\ UNCHANGED busy

\* The end of a request; the handler of a button enables the buttons again.
EndLoad(l) ==
    /\ load' = [load EXCEPT ![l] = NoLoad]
    /\ busy' = (busy /\ l # "button")

\* A first page replaces what is on the screen, another one is appended.
Arrive(l) ==
    /\ load[l].pc = "answered"
    /\ list' = IF load[l].after = 0 THEN load[l].page ELSE list \o load[l].page
    /\ base' = IF load[l].after = 0 THEN load[l].seen ELSE base
    /\ cursor' = load[l].next
    /\ EndLoad(l)
    /\ UNCHANGED <<replication, table, size, submitted, crossed>>

\* An error reply or none: the screen shows it and keeps its posts.
LoadFails(l) ==
    /\ load[l].pc # "idle"
    /\ EndLoad(l)
    /\ UNCHANGED <<replication, table, size, view, submitted, crossed>>

LoadMore ==
    /\ ~busy /\ cursor # 0
    /\ busy' = TRUE
    /\ StartLoad(cursor)
    /\ crossed' = (crossed \/ load["mount"] # NoLoad)
    /\ UNCHANGED <<replication, table, size, view, submitted>>

Submit(u) ==
    /\ ~busy
    /\ busy' = TRUE
    /\ Insert(u)
    /\ submitted' = nextId
    /\ UNCHANGED <<replication, size, view, load, crossed>>

\* The post was read back by FindByID: the screen loads the first page again.
SubmitReplied ==
    /\ submitted \in DOMAIN posts
    /\ submitted' = 0
    /\ StartLoad(0)
    /\ UNCHANGED <<replication, table, size, view, busy, crossed>>

\* INSERT or FindByID failed, or the reply was lost; the post may be there.
SubmitFails ==
    /\ submitted # 0
    /\ submitted' = 0
    /\ busy' = FALSE
    /\ UNCHANGED <<replication, table, size, view, load, crossed>>

-----------------------------------------------------------------------------

Next ==
    \/ \E u \in User : SignUp(u) \/ Replicate(u) \/ CreatePost(u) \/ Submit(u)
    \/ \E i \in Id : Commit(i) \/ Abort(i)
    \/ \E l \in Caller : ListPosts(l) \/ Arrive(l) \/ LoadFails(l)
    \/ LoadMore \/ SubmitReplied \/ SubmitFails

\* The reader goes on asking for more, its createPost is answered, and the
\* network does not fail for ever.
Fairness ==
    /\ WF_vars(LoadMore) /\ WF_vars(SubmitReplied \/ SubmitFails)
    /\ SF_vars(ListPosts("button")) /\ SF_vars(Arrive("button"))

Spec == Init /\ [][Next]_vars
FairSpec == Spec /\ Fairness

-----------------------------------------------------------------------------
(* Properties.                                                             *)

\* Keyset pagination shows every post once: the ids on the screen descend
\* strictly, and a post that was there when the first page was read is on the
\* screen when paging has come to it, whatever is inserted, committed out of
\* order or not yet replicated meanwhile; unless two pages crossed.
FeedComplete ==
    ~crossed =>
        /\ Descends(list)
        /\ \A i \in base : cursor <= i => i \in Range(list)

\* A reader that follows next_page_after comes to the last page.
PagingEnds == (cursor # 0) ~> (cursor = 0)
=============================================================================
