------------------------------- MODULE MCCrud -------------------------------
(***************************************************************************)
(* An instance of Crud for TLC: the users and posts of the repository's    *)
(* tests. A user has a required and unique email and a nick; a post may    *)
(* refer to a user, and has a tag with a default.                          *)
(***************************************************************************)
EXTENDS Crud, TLC

CONSTANTS users, posts, email, nick, author, bad,
          unset, none, badId, malformed, noRequest, noAnswer, noConn, noWrite, noTotal,
          k1, k2

MCTables == {users, posts}
MCColumns == (users :> {email, nick}) @@ (posts :> {author})
MCRequired == {<<users, email>>}
MCUnique == {<<users, email>>}
MCForeignKey == <<posts, author>> :> users
MCDefault == <<users, nick>> :> 1

\* Emails, nicks and users are numbered; a bad value passes no validator.
MCValues == {1, 2, bad}
MCRank == [v \in {1, 2} |-> v] @@ (bad :> 3)
MCAccepted == [t \in MCTables |-> [c \in MCColumns[t] |-> {1, 2}]]

\* One row per table after seeding: the post refers to the user.
MCSeeded ==
  (users :> [i \in 1..MaxId |-> IF i = 1 THEN (email :> 1) @@ (nick :> 1) ELSE none])
  @@ (posts :> [i \in 1..MaxId |-> IF i = 1 THEN author :> 1 ELSE none])

Empty == [c \in {} |-> 1]

Sorted(t, sort, descending, page, limit) ==
  [op |-> "list", table |-> t, sort |-> sort, descending |-> descending, page |-> page, limit |-> limit]
List(t, page, limit) == Sorted(t, bad, FALSE, page, limit)
GetOf(t, i) == [op |-> "get", table |-> t, id |-> i]
Post(t, body) == [op |-> "create", table |-> t, body |-> body]
Put(t, i, body) == [op |-> "update", table |-> t, id |-> i, body |-> body]
Remove(t, i) == [op |-> "delete", table |-> t, id |-> i]

UserReads == {GetOf(users, 2), List(users, 1, 20), Sorted(users, nick, TRUE, 2, 1)}

UserWrites ==
  {Post(users, email :> 2), Post(users, (email :> 1) @@ (nick :> 2)),
   Put(users, 1, email :> 2), Put(users, 2, email :> 1), Put(users, 1, nick :> 2),
   Put(users, 1, Empty), Put(users, 2, nick :> 1),
   Remove(users, 1), Remove(users, 2)}

PostWrites ==
  {Post(posts, author :> 2), Post(posts, author :> 1),
   Put(posts, 1, author :> 2), Remove(posts, 1)}

\* Requests that are refused at some point of the handler, whatever runs.
Refused ==
  {List(bad, 1, 20), GetOf(users, badId), Remove(users, badId), Put(users, badId, malformed),
   Post(users, malformed), Post(users, nick :> 1), Post(users, email :> unset),
   Put(users, 1, malformed), Put(users, 1, email :> bad), Put(posts, 2, author :> 2),
   Post(posts, Empty)}

AllRequests == UserReads \cup UserWrites \cup PostWrites \cup Refused

\* Those that get in each other's way: enough for a larger pool.
FileRequests ==
  {List(users, 1, 20), GetOf(users, 2)} \cup UserWrites
  \cup {Post(posts, author :> 2), Put(posts, 1, author :> 2), Remove(posts, 1)}

\* Every kind of statement and of wait, for liveness.
LiveRequests ==
  {List(users, 1, 20), Put(users, 1, nick :> 2), Remove(posts, 1)}

OneConn == {k1}
TwoConns == {k1, k2}
ClientSymmetry == Permutations(Clients)
=============================================================================
