-------------------------- MODULE MC_UsersService --------------------------
(* Small instances of UsersService for TLC: who is in the collection at the *)
(* start, what the gateway publishes and what the gRPC clients call.        *)
EXTENDS UsersService, TLC

CONSTANTS u1, u2, u3, u4, u5, u6, e1, e2, n1, n2

Stored(i, e, deleted) == [id |-> i, email |-> e, name |-> n1, deleted |-> deleted]
Register(e)           == [op |-> "create", email |-> e, name |-> n1, deleted |-> FALSE]
SetName(i, n)         == [op |-> "update", id |-> i, email |-> Empty, name |-> n]
SetEmail(i, e)        == [op |-> "update", id |-> i, email |-> e, name |-> Empty]
Delete(i)             == [op |-> "delete", id |-> i]
Login(e)              == [op |-> "login", email |-> e]
GetById(i)            == [op |-> "getById", id |-> i]

OneLiveUser    == {Stored(u1, e1, FALSE)}
LiveAndDeleted == {Stored(u1, e1, FALSE), Stored(u2, e1, TRUE)}

\* The deployed system: the gateway publishes every write, also about a user
\* that is already marked deleted.
GatewayPublishes == {Register(e1), SetName(u1, n2), SetName(u2, n2), Delete(u1)}

\* UpdateUser, RegisterUser and DeleteUserById are RPCs as well: any other
\* gRPC client may write beside the queue's consumers.
UpdatesByQueue == {SetName(u1, n2)}
UpdatesByRpc   == {SetEmail(u1, e2), Login(e1), GetById(u1)}

\* Two queues suffice for a message to wait behind another or beside it.
UpdateOrDelete == {SetName(u1, n2), Delete(u1)}

\* Ids nobody refers to before they are given out.
FreshIds == Permutations({u3, u4, u5, u6})

=============================================================================
