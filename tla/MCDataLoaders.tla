--------------------------- MODULE MCDataLoaders ----------------------------
(***************************************************************************)
(* Small instances of DataLoaders.  users and posts refer to each other,   *)
(* users have friends among the users, and tags are tied to users by the   *)
(* rows of userTags.                                                       *)
(***************************************************************************)
EXTENDS DataLoaders, TLC

CONSTANTS users, posts, tags, userTags, a, b, c, o1, o2

Rel(kind, dao, join, required) ==
  [kind |-> kind, dao |-> dao, join |-> join, required |-> required]

MCDaos == {users, posts, tags, userTags}

MCRelations ==
  [d \in MCDaos |->
     CASE d = users -> <<Rel("foreign", posts, Null, FALSE),
                         Rel("inner", users, Null, FALSE),
                         Rel("relation", tags, userTags, FALSE)>>
       [] d = posts -> <<Rel("inner", users, Null, TRUE)>>
       [] OTHER -> <<>>]

All(plan) == [plan |-> plan, limit |-> Null]
AtMost(n, plan) == [plan |-> plan, limit |-> n]

Leaf == <<>>
R(k, ks) == [id |-> k, refs |-> ks]
Tables(u, p, t, ut) ==
  [d \in MCDaos |-> CASE d = users -> u [] d = posts -> p [] d = tags -> t [] d = userTags -> ut]

-----------------------------------------------------------------------------
(* users { posts { author { posts } } tags }, one user: a post comes, a    *)
(* post and a tag go, or the user goes.                                    *)
PostsLeaf == (1 :> All(Leaf))
PostsAuthor == (1 :> All(PostsLeaf))
PostsDeep == (1 :> All(PostsAuthor)) @@ (3 :> All(Leaf))
PostsTags == PostsLeaf @@ (3 :> All(Leaf))
PostsQuery == [o \in {o1, o2} |-> [dao |-> users, plan |-> IF o = o1 THEN PostsDeep ELSE PostsTags]]
OnePost == Tables({R(a, {})}, {R(b, {a})}, {R(c, {})}, {R(a, {c})})
TwoPosts == Tables({R(a, {})}, {R(b, {a}), R(c, {a})}, {R(c, {})}, {R(a, {c})})
NoUser == Tables({}, {R(b, {a})}, {R(c, {})}, {})
PostsWorkload ==
  [query |-> PostsQuery, db |-> OnePost, writes |-> {OnePost, TwoPosts, NoUser},
   driverPages |-> FALSE, maxFailures |-> 1]

-----------------------------------------------------------------------------
(* users { posts(limit: 1) friends { friends } }: more friends than a page *)
(* holds, whose batches share the loader of their friends.                 *)
Friends1 == (2 :> All(Leaf))
FriendsAndPost == (1 :> AtMost(1, Leaf)) @@ (2 :> All(Friends1))
FriendsQuery == [o \in {o1} |-> [dao |-> users, plan |-> FriendsAndPost]]
PopularUser == Tables({R(a, {a, b, c}), R(b, {a, c}), R(c, {b})}, {R(b, {a}), R(c, {a})}, {}, {})
AloneAgain == [PopularUser EXCEPT ![users] = {R(a, {a, b, c}), R(b, {}), R(c, {b})}]
FriendsWorkload ==
  [query |-> FriendsQuery, db |-> PopularUser, writes |-> {AloneAgain},
   driverPages |-> TRUE, maxFailures |-> 0]

(* users { posts }: more posts than a page holds, which cuts the batch.    *)
ManyPosts == Tables({R(a, {}), R(b, {})}, {R(k, {a}) : k \in {a, b, c}}, {}, {})
CutWorkload ==
  [query |-> [o \in {o1} |-> [dao |-> users, plan |-> PostsLeaf]], db |-> ManyPosts,
   writes |-> {OnePost}, driverPages |-> TRUE, maxFailures |-> 0]

MCPlans ==
  [d \in MCDaos |->
     CASE d = users -> {Leaf, PostsLeaf, PostsDeep, PostsTags, Friends1, FriendsAndPost}
       [] d = posts -> {Leaf, PostsAuthor}
       [] OTHER -> {Leaf}]
MCWorkloads == {PostsWorkload, FriendsWorkload, CutWorkload}

-----------------------------------------------------------------------------
(* users { tags }: the rows that tie them are loaded for every find.       *)
TagsLeaf == (3 :> All(Leaf))
TagsPlans == [d \in MCDaos |-> IF d = users THEN {Leaf, TagsLeaf} ELSE {Leaf}]
TagsQuery == [o \in {o1, o2} |-> [dao |-> users, plan |-> TagsLeaf]]
Tagged == Tables({R(a, {}), R(b, {})}, {}, {R(a, {}), R(c, {})}, {R(a, {a}), R(b, {a})})
TaggedTwice == [Tagged EXCEPT ![userTags] = {R(a, {a}), R(a, {c}), R(b, {a})}]
UserLess == [Tagged EXCEPT ![users] = {R(a, {})}]
TagsWorkloads ==
  {[query |-> TagsQuery, db |-> Tagged, writes |-> {TaggedTwice, UserLess},
    driverPages |-> FALSE, maxFailures |-> 0]}

-----------------------------------------------------------------------------
(* The condition of the theorems about DataLoaders holds of the instances. *)
ASSUME NestedInstance == NestedUpTo(3)
=============================================================================
