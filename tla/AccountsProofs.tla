--------------------------- MODULE AccountsProofs ---------------------------
(***************************************************************************)
(* The connected accounts, for any accounts, threads and bounds: a card    *)
(* that loads has a thread that will end that, and what the detached       *)
(* threads write never takes an account away, closes a session that did    *)
(* not expire, or brings back what was removed everywhere.                 *)
(***************************************************************************)
EXTENDS Accounts, TLAPS

(* The tokens of one account, and those that a connection may hold: of the *)
(* accounts that its id stands for.                                        *)
Own(a) == {NoToken} \cup {<<a, n>> : n \in 1..MaxTokens}
Of(a) == {NoToken} \cup {k \in AnyToken : \E b \in Aliases(a) \cap Accounts : k \in Own(b)}

ThreadStates == [at : Steps, id : Ids, token : AnyToken, rows : Rows]

(* The steps of a fetch that knows its connection.                         *)
Requests == {"graph", "profile", "nothing", "refresh", "store", "refreshed", "refused"}

HasExpired(a) == \E b \in Aliases(a) : expired[b] > 0

(* What a thread holds at each of its steps.                               *)
Holds(r) ==
  /\ r \in ThreadStates
  /\ \A a \in Accounts : r.rows[a] \in Own(a)
  /\ r.at \notin Requests => r.id = NoAccount
  /\ r.at = "begin" => r.token # NoToken
  /\ r.at \in {"graph", "profile"} => r.token \in Of(r.id) \ {NoToken}
  /\ r.at \in {"refresh", "store", "refreshed"} => r.id \in Accounts
  /\ r.at = "refreshed" => r.token \in Own(r.id) \ {NoToken}
  /\ r.at \in {"refresh", "store", "refreshed", "refused"} /\ r.id \in Accounts
       => HasExpired(r.id)

ThreadsHold == thread \in [Threads -> ThreadStates] /\ \A t \in Threads : Holds(thread[t])

(* A connection holds a token that its id stands for.  One that is not     *)
(* loaded has never been under another id.                                 *)
ConnectionHolds(a, c) ==
  /\ c \in Connections
  /\ c.exists \/ c = NoConnection
  /\ c.token \in Of(a)
  /\ a \in Named /\ ~c.loaded => c.token \in Own(a)

ConnectionsHold ==
  /\ connections \in [Ids -> Connections]
  /\ \A a \in Ids : ConnectionHolds(a, connections[a])

ProxyHolds ==
  /\ rows \in Rows /\ \A a \in Accounts : rows[a] \in Own(a)
  /\ issued \in [Accounts -> 0..MaxTokens]
  /\ expired \in [Accounts -> 0..MaxTokens]

OthersHold ==
  /\ removing \in Ids
  /\ modal \in BOOLEAN /\ browser \in BOOLEAN

(* LoadingHasAThread, with a thread that will find the account by a token  *)
(* that no other connection can hold.                                      *)
CardsWatched ==
  \A a \in Named :
    connections[a].fetching =>
      \E t \in Threads :
        \/ /\ thread[t].at = "begin" /\ thread[t].token = connections[a].token
           /\ thread[t].token \in Own(a)
        \/ thread[t].id = a

IInv == ConnectionsHold /\ ThreadsHold /\ ProxyHolds /\ OthersHold /\ CardsWatched

-----------------------------------------------------------------------------
(* Tokens.                                                                 *)

LEMMA OwnTokens ==
  ASSUME NEW a \in Accounts
  PROVE  Own(a) \subseteq AnyToken /\ NoToken \in Own(a)
BY DEF Own, AnyToken

LEMMA IssuedToken ==
  ASSUME NEW a \in Accounts, NEW n \in Nat, n < MaxTokens
  PROVE  <<a, n + 1>> \in Own(a) \ {NoToken}
<1>1. n + 1 \in 1..MaxTokens
  BY BoundsAssumption
<1>2. <<a, n + 1>> # NoToken
  BY DEF NoToken
<1> QED
  BY <1>1, <1>2 DEF Own

(* The owner of a token.                                                   *)
LEMMA Owner ==
  ASSUME NEW a \in Ids, NEW k \in Of(a), k # NoToken
  PROVE  /\ k[1] \in Accounts /\ k[1] \in Aliases(a)
         /\ k \in Own(k[1]) /\ k \in AnyToken
<1>1. PICK b \in Aliases(a) \cap Accounts : k \in Own(b)
  BY DEF Of
<1>2. PICK n \in 1..MaxTokens : k = <<b, n>>
  BY <1>1 DEF Own
<1>3. k[1] = b
  BY <1>2
<1> QED
  BY <1>1, <1>3, OwnTokens

LEMMA OwnersDiffer ==
  ASSUME NEW a \in Accounts, NEW b \in Accounts, NEW k \in Own(a), k \in Own(b), k # NoToken
  PROVE  a = b
BY DEF Own

LEMMA OfTokens ==
  ASSUME NEW a \in Ids
  PROVE  Of(a) \subseteq AnyToken /\ NoToken \in Of(a) /\ (a \in Accounts => Own(a) \subseteq Of(a))
<1>1. a \in Accounts => a \in Aliases(a) /\ Own(a) \subseteq AnyToken
  BY OwnTokens DEF Aliases
<1>2. NoToken \in AnyToken
  BY DEF AnyToken
<1> QED
  BY <1>1, <1>2 DEF Of

(* Where a connection goes that gets the id of the profile of a token it   *)
(* may hold: only an account that Graph knows by another id moves, and     *)
(* that holds no tokens but its own.                                       *)
LEMMA Rekeyed ==
  ASSUME NEW a \in Ids, NEW b \in Aliases(a) \cap Accounts
  PROVE  /\ GraphId[b] \in Ids
         /\ Of(a) \subseteq Of(GraphId[b])
         /\ GraphId[b] # a => a = b
<1>1. GraphId[b] \in Ids
  BY GraphAssumption DEF Ids
<1>2. b = a \/ GraphId[b] = a
  BY DEF Aliases
<1>3. CASE GraphId[b] = a
  BY <1>1, <1>3
<1>4. CASE b = a /\ GraphId[a] # a
  <2>1. ASSUME NEW c \in Aliases(a) \cap Accounts PROVE c = a
    BY <1>4, <2>1, GraphAssumption, AccountsAssumption DEF Aliases
  <2>2. a \in Aliases(GraphId[a]) \cap Accounts
    BY <1>4 DEF Aliases
  <2> QED
    BY <1>1, <1>4, <2>1, <2>2 DEF Of
<1> QED
  BY <1>2, <1>3, <1>4

(* An expired token is one of an account of which one has expired.         *)
LEMMA ExpiredToken ==
  ASSUME NEW a \in Ids, NEW k \in Of(a), k # NoToken,
         expired \in [Accounts -> 0..MaxTokens], k[2] <= expired[k[1]]
  PROVE  HasExpired(a)
<1>1. k[1] \in Accounts /\ k[1] \in Aliases(a) /\ k \in Own(k[1])
  BY Owner
<1>2. PICK n \in 1..MaxTokens : k = <<k[1], n>>
  BY <1>1 DEF Own
<1>3. k[2] = n /\ n > 0
  BY <1>2, BoundsAssumption
<1>4. expired[k[1]] > 0
  BY <1>1, <1>3, BoundsAssumption
<1> QED
  BY <1>1, <1>4 DEF HasExpired

-----------------------------------------------------------------------------
(* One step of one thread: only its own state changes.                     *)

LEMMA Becomes ==
  ASSUME ThreadsHold, NEW t \in Threads, NEW r,
         thread' = [thread EXCEPT ![t] = r], UNCHANGED expired, Holds(r)
  PROVE  /\ thread'[t] = r
         /\ \A u \in Threads \ {t} : thread'[u] = thread[u]
         /\ ThreadsHold'
<1>1. r \in ThreadStates
  BY DEF Holds
<1>2. /\ thread' \in [Threads -> ThreadStates]
      /\ thread'[t] = r
      /\ \A u \in Threads \ {t} : thread'[u] = thread[u]
  BY <1>1 DEF ThreadsHold
<1>3. ASSUME NEW u \in Threads PROVE Holds(thread[u])'
  BY <1>2 DEF Holds, HasExpired, ThreadsHold
<1> QED
  BY <1>2, <1>3 DEF ThreadsHold

(* Whether the cards that load keep their threads, when one thread takes   *)
(* a step: it stays theirs, or they no longer load.                        *)
LEMMA StillLoading ==
  ASSUME CardsWatched, NEW t \in Threads,
         \A u \in Threads \ {t} : thread'[u] = thread[u],
         \A a \in Named :
           connections'[a].fetching =>
             \/ /\ thread'[t].at = "begin" /\ thread'[t].token = connections'[a].token
                /\ thread'[t].token \in Own(a)
             \/ thread'[t].id = a
             \/ /\ connections[a].fetching /\ connections'[a].token = connections[a].token
                /\ thread[t].id # a
                /\ ~(/\ thread[t].at = "begin" /\ thread[t].token = connections[a].token
                     /\ thread[t].token \in Own(a))
  PROVE  CardsWatched'
BY DEF CardsWatched

(* A thread writes its connection, perhaps under another id.               *)
LEMMA MoveHolds ==
  ASSUME ConnectionsHold, NEW from \in Ids, NEW to \in Ids, NEW conn, Moves(from, to, conn),
         connections[from].exists => ConnectionHolds(to, conn) /\ conn.exists
  PROVE  /\ ConnectionsHold'
         /\ connections'[from] = IF connections[from].exists /\ to = from THEN conn
                                 ELSE NoConnection
         /\ \A b \in Ids \ {from} : \/ connections'[b] = connections[b]
                                     \/ /\ b = to /\ connections'[b] = conn
                                        /\ ~connections[b].exists /\ connections[from].exists
         /\ connections[from].exists => connections'[to].exists
<1>1. CASE ~connections[from].exists
  BY <1>1 DEF Moves, ConnectionsHold, ConnectionHolds
<1>2. CASE connections[from].exists
  <2>1. conn \in Connections /\ conn.exists /\ NoConnection \in Connections
    BY <1>2 DEF ConnectionHolds, NoConnection, Connections, AnyToken
  <2>2. CASE to = from
    <3>1. connections' = [connections EXCEPT ![from] = conn]
      BY <1>2, <2>2 DEF Moves, ConnectionsHold, NoConnection
    <3> QED
      BY <1>2, <2>1, <2>2, <3>1 DEF ConnectionsHold
  <2>3. CASE to # from
    <3> DEFINE new == IF connections[to].exists THEN connections[to] ELSE conn
    <3>1. connections' = [connections EXCEPT ![from] = NoConnection, ![to] = new]
      BY <1>2, <2>3 DEF Moves, ConnectionsHold
    <3>2. ConnectionHolds(to, new) /\ new \in Connections /\ new.exists
      BY <1>2, <2>1 DEF ConnectionsHold
    <3>3. ConnectionHolds(from, NoConnection)
      BY <2>1, OfTokens, OwnTokens DEF ConnectionHolds, NoConnection, Named
    <3> HIDE DEF new
    <3>4. /\ connections' \in [Ids -> Connections]
          /\ connections'[from] = NoConnection /\ connections'[to] = new
          /\ \A b \in Ids \ {from, to} : connections'[b] = connections[b]
      BY <2>1, <2>3, <3>1, <3>2 DEF ConnectionsHold
    <3>5. ConnectionsHold'
      BY <3>2, <3>3, <3>4 DEF ConnectionsHold, ConnectionHolds
    <3> QED
      BY <1>2, <2>3, <3>2, <3>4, <3>5 DEF new
  <2> QED
    BY <2>2, <2>3
<1> QED
  BY <1>1, <1>2

LEMMA IdleHolds == Holds(Idle)
<1>1. NoRows \in Rows /\ NoToken \in AnyToken
  BY DEF NoRows, Rows, AnyToken
<1>2. Idle \in ThreadStates
  BY <1>1 DEF Idle, ThreadStates, Steps, Ids
<1> QED
  BY <1>2, OwnTokens DEF Holds, Idle, Requests, NoRows

-----------------------------------------------------------------------------
(* What the steps of the fetching threads have in common.                  *)

(* A thread goes on with the request of its connection, which is answered. *)
LEMMA GoesHolds ==
  ASSUME IInv, NEW t \in Threads, thread[t].at \in Requests, NEW where \in Requests,
         Goes(t, where), UNCHANGED expired, where # "graph", where # "refreshed",
         where = "profile" => thread[t].at = "graph",
         where \in {"refresh", "store"} => thread[t].id \in Accounts,
         where \in {"refresh", "store", "refused"} /\ thread[t].id \in Accounts
           => HasExpired(thread[t].id)
  PROVE  /\ ThreadsHold'
         /\ thread'[t].id = thread[t].id
         /\ \A u \in Threads \ {t} : thread'[u] = thread[u]
<1> DEFINE token == IF where = "profile" THEN thread[t].token ELSE NoToken
           r == [thread[t] EXCEPT !.at = where, !.token = token]
<1>1. thread \in [Threads -> ThreadStates] /\ Holds(thread[t])
  BY DEF IInv, ThreadsHold
<1>2. thread' = [thread EXCEPT ![t] = r]
  BY <1>1 DEF Goes, ThreadStates
<1>3. token \in AnyToken
  BY <1>1 DEF ThreadStates, AnyToken
<1>4. /\ r \in ThreadStates /\ r.at = where /\ r.token = token
      /\ r.id = thread[t].id /\ r.rows = thread[t].rows
  BY <1>1, <1>3 DEF ThreadStates, Requests, Steps
<1>5. where = "profile" => token \in Of(thread[t].id) \ {NoToken}
  BY <1>1 DEF Holds
<1> HIDE DEF r, token
<1>6. Holds(r)
  BY <1>1, <1>4, <1>5 DEF Holds, Requests
<1>7. IInv => ThreadsHold
  BY DEF IInv
<1>8. /\ thread'[t] = r
      /\ \A u \in Threads \ {t} : thread'[u] = thread[u]
      /\ ThreadsHold'
  BY <1>1, <1>2, <1>6, <1>7, Becomes
<1> QED
  BY <1>4, <1>8

LEMMA EndsHolds ==
  ASSUME IInv, NEW t \in Threads, Ends(t), UNCHANGED expired
  PROVE  /\ ThreadsHold'
         /\ thread'[t] = Idle
         /\ \A u \in Threads \ {t} : thread'[u] = thread[u]
<1>1. ThreadsHold
  BY DEF IInv
<1>2. thread' = [thread EXCEPT ![t] = Idle]
  BY DEF Ends
<1> QED
  BY <1>1, <1>2, IdleHolds, Becomes

(* A detached thread starts.                                               *)
LEMMA StartsHolds ==
  ASSUME IInv, NEW where \in {"check", "begin"}, NEW token \in AnyToken,
         where = "begin" => token # NoToken, Starts(where, token), UNCHANGED expired
  PROVE  /\ ThreadsHold'
         /\ \E t \in Threads : /\ thread[t] = Idle
                               /\ thread'[t].at = where /\ thread'[t].token = token
                               /\ \A u \in Threads \ {t} : thread'[u] = thread[u]
<1>1. PICK t \in Threads :
        /\ thread[t] = Idle
        /\ thread' = [thread EXCEPT ![t] = [Idle EXCEPT !.at = where, !.token = token]]
  BY DEF Starts
<1> DEFINE r == [Idle EXCEPT !.at = where, !.token = token]
<1>2. Holds(Idle)
  BY IdleHolds
<1>3. r \in ThreadStates /\ r.at = where /\ r.token = token
      /\ r.id = Idle.id /\ r.rows = Idle.rows
  BY <1>2 DEF Holds, ThreadStates, Idle, Steps
<1>4. Holds(r)
  BY <1>2, <1>3, AccountsAssumption DEF Holds, Requests, Idle
<1>5. ThreadsHold
  BY DEF IInv
<1> HIDE DEF r
<1>6. thread' = [thread EXCEPT ![t] = r]
  BY <1>1 DEF r
<1> QED
  BY <1>1, <1>3, <1>4, <1>5, <1>6, Becomes

(* A step that leaves the connections alone, and the thread its account.   *)
LEMMA LoadingKept ==
  ASSUME CardsWatched, UNCHANGED connections, NEW t \in Threads,
         thread'[t].id = thread[t].id, thread[t].at # "begin",
         \A u \in Threads \ {t} : thread'[u] = thread[u]
  PROVE  CardsWatched'
BY DEF CardsWatched

-----------------------------------------------------------------------------
(* The initial state and the steps of the user interface.                  *)

LEMMA InitHolds == Init => IInv
<1> SUFFICES ASSUME Init PROVE IInv
  OBVIOUS
<1>1. ConnectionsHold
  <2>1. NoConnection \in Connections
    BY DEF NoConnection, Connections, AnyToken
  <2>2. \A a \in Ids : ConnectionHolds(a, NoConnection)
    BY <2>1, OfTokens, OwnTokens DEF ConnectionHolds, NoConnection, Named
  <2> QED
    BY <2>1, <2>2 DEF Init, ConnectionsHold
<1>2. ProxyHolds
  <2>1. rows \in Rows
    BY DEF Init
  <2>2. ASSUME NEW a \in Accounts PROVE rows[a] \in Own(a)
    BY BoundsAssumption DEF Init, Own
  <2>3. issued \in [Accounts -> 0..MaxTokens] /\ expired \in [Accounts -> 0..MaxTokens]
    BY BoundsAssumption DEF Init
  <2> QED
    BY <2>1, <2>2, <2>3 DEF ProxyHolds
<1>3. ThreadsHold
  <2>1. PICK t \in Threads :
          thread = [u \in Threads |-> IF u = t THEN [Idle EXCEPT !.at = "check"] ELSE Idle]
    BY DEF Init
  <2>2. Holds(Idle)
    BY IdleHolds
  <2>3. Holds([Idle EXCEPT !.at = "check"])
    BY <2>2, AccountsAssumption DEF Holds, ThreadStates, Steps, Idle, Requests
  <2> QED
    BY <2>1, <2>2, <2>3 DEF ThreadsHold, Holds
<1>4. OthersHold
  <2>1. removing \in Ids /\ modal = FALSE /\ browser = FALSE
    BY DEF Init, Ids
  <2> QED
    BY <2>1 DEF OthersHold
<1>5. CardsWatched
  BY DEF Init, CardsWatched, NoConnection, Named, Ids
<1> QED
  BY <1>1, <1>2, <1>3, <1>4, <1>5 DEF IInv

LEMMA ShowCardHolds == ASSUME IInv, NEW a \in Accounts, ShowCard(a) PROVE IInv'
<1> DEFINE token == connections[a].token
           conn == [connections[a] EXCEPT !.fetching = TRUE]
<1>1. a \in Ids /\ ConnectionHolds(a, connections[a])
  BY DEF IInv, ConnectionsHold, Ids
<1>2. token \in AnyToken /\ token # NoToken /\ connections[a].exists /\ ~connections[a].loaded
  BY <1>1 DEF ConnectionHolds, Connections, ShowCard, Connected, NoConnection
<1>3. /\ ThreadsHold'
      /\ \E t \in Threads : /\ thread[t] = Idle
                            /\ thread'[t].at = "begin" /\ thread'[t].token = token
                            /\ \A u \in Threads \ {t} : thread'[u] = thread[u]
  BY <1>2, StartsHolds DEF ShowCard, proxyVars
<1>4. conn \in Connections /\ conn.exists /\ conn.token = token /\ conn.loaded = connections[a].loaded
  BY <1>1, <1>2 DEF ConnectionHolds, Connections
<1>5. ConnectionHolds(a, conn)
  BY <1>1, <1>4 DEF ConnectionHolds
<1> HIDE DEF conn
<1>6. connections' = [connections EXCEPT ![a] = conn]
  BY DEF ShowCard, conn
<1>7. ConnectionsHold'
  BY <1>4, <1>5, <1>6 DEF IInv, ConnectionsHold, ConnectionHolds
<1>8. /\ connections'[a] = conn
      /\ \A b \in Accounts \ {a} : connections'[b] = connections[b]
  BY <1>1, <1>6 DEF IInv, ConnectionsHold, Ids
<1>9. CardsWatched'
  <2>1. PICK t \in Threads : /\ thread[t] = Idle
                             /\ thread'[t].at = "begin" /\ thread'[t].token = token
                             /\ \A u \in Threads \ {t} : thread'[u] = thread[u]
    BY <1>3
  <2>2. thread[t].at = "idle" /\ thread[t].id \notin Accounts
    BY <2>1, AccountsAssumption DEF Idle
  <2>3. a \in Named => token \in Own(a)
    BY <1>1, <1>2 DEF ConnectionHolds
  <2> HIDE DEF token
  <2> QED
    BY <1>4, <1>8, <2>1, <2>2, <2>3 DEF IInv, CardsWatched, Named
<1> QED
  BY <1>3, <1>7, <1>9 DEF IInv, ShowCard, ProxyHolds, OthersHold, uiVars, proxyVars

LEMMA DisconnectHolds == ASSUME IInv, NEW a \in Accounts, Disconnect(a) PROVE IInv'
<1>1. connections' = [connections EXCEPT ![a] = NoConnection] /\ a \in Ids
  BY DEF Disconnect, Ids
<1>2. NoConnection \in Connections /\ ~NoConnection.fetching
  BY DEF NoConnection, Connections, AnyToken
<1>3. ConnectionHolds(a, NoConnection)
  BY <1>1, <1>2, OfTokens, OwnTokens DEF ConnectionHolds, NoConnection, Named
<1>4. ConnectionsHold' /\ \A b \in Named : connections'[b] = connections[b]
                                           \/ ~connections'[b].fetching
  BY <1>1, <1>2, <1>3 DEF IInv, ConnectionsHold, ConnectionHolds, Named, Ids
<1>5. CardsWatched'
  BY <1>4 DEF IInv, Disconnect, CardsWatched
<1>6. OthersHold'
  BY <1>1 DEF IInv, Disconnect, OthersHold
<1> QED
  BY <1>4, <1>5, <1>6 DEF IInv, Disconnect, ThreadsHold, Holds, HasExpired, ProxyHolds, proxyVars

LEMMA DeleteReturnsHolds == ASSUME IInv, DeleteReturns PROVE IInv'
<1>1. ProxyHolds'
  BY OwnTokens DEF IInv, ProxyHolds, DeleteReturns, Rows
<1>2. ThreadsHold'
  BY DEF IInv, DeleteReturns, ThreadsHold, Holds, HasExpired
<1>3. OthersHold'
  BY DEF IInv, DeleteReturns, OthersHold, Ids
<1> QED
  BY <1>1, <1>2, <1>3 DEF IInv, DeleteReturns, ConnectionsHold, CardsWatched

LEMMA DialogHolds ==
  ASSUME IInv, OpenDialog \/ InitiateLogin \/ CloseDialog
  PROVE  IInv'
<1>1. UNCHANGED <<connections, thread, proxyVars>> /\ OthersHold'
  BY DEF IInv, OpenDialog, InitiateLogin, CloseDialog, OthersHold
<1> QED
  BY <1>1 DEF IInv, ConnectionsHold, ThreadsHold, Holds, HasExpired, ProxyHolds, proxyVars,
              CardsWatched

LEMMA DoneHolds == ASSUME IInv, Done PROVE IInv'
<1>1. NoToken \in AnyToken
  BY DEF AnyToken
<1>2. /\ ThreadsHold'
      /\ \E t \in Threads : /\ thread[t] = Idle
                            /\ \A u \in Threads \ {t} : thread'[u] = thread[u]
  BY <1>1, StartsHolds DEF Done, proxyVars
<1>3. CardsWatched'
  BY <1>2, AccountsAssumption DEF IInv, CardsWatched, Done, Idle, Named
<1> QED
  BY <1>2, <1>3 DEF IInv, ConnectionsHold, ProxyHolds, proxyVars, OthersHold, Done

-----------------------------------------------------------------------------
(* The steps of the browser, the proxy and Microsoft.                      *)

LEMMA SignsInHolds == ASSUME IInv, NEW a \in Accounts, SignsIn(a) PROVE IInv'
<1>1. issued[a] \in Nat /\ issued[a] < MaxTokens
  BY DEF IInv, ProxyHolds, SignsIn
<1>2. <<a, issued[a] + 1>> \in Own(a) /\ <<a, issued[a] + 1>> \in AnyToken
  BY <1>1, IssuedToken, OwnTokens
<1>3. issued[a] + 1 \in 0..MaxTokens
  BY <1>1, BoundsAssumption
<1>4. ProxyHolds'
  BY <1>2, <1>3 DEF IInv, ProxyHolds, SignsIn, Rows
<1> QED
  BY <1>4 DEF IInv, SignsIn, ConnectionsHold, ThreadsHold, Holds, HasExpired, OthersHold,
              CardsWatched

(* What has expired once stays so.                                         *)
LEMMA ExpiresHolds == ASSUME IInv, NEW a \in Accounts, Expires(a) PROVE IInv'
<1>1. /\ expired' \in [Accounts -> 0..MaxTokens]
      /\ \A b \in Accounts : expired[b] > 0 => expired'[b] > 0
  BY BoundsAssumption DEF IInv, ProxyHolds, Expires
<1>2. ThreadsHold'
  <2>1. ASSUME NEW t \in Threads PROVE Holds(thread[t])'
    <3>1. Holds(thread[t]) /\ thread' = thread
      BY DEF IInv, ThreadsHold, Expires
    <3> QED
      BY <1>1, <3>1 DEF Holds, HasExpired, Requests, Aliases
  <2> QED
    BY <2>1 DEF IInv, ThreadsHold, Expires
<1> QED
  BY <1>1, <1>2 DEF IInv, Expires, ConnectionsHold, ProxyHolds, OthersHold, uiVars,
                    CardsWatched

-----------------------------------------------------------------------------
(* The steps of a check.                                                   *)

LEMMA CheckAsksHolds == ASSUME IInv, NEW t \in Threads, CheckAsks(t) PROVE IInv'
<1> DEFINE r == [thread[t] EXCEPT !.at = "answer", !.rows = rows]
<1>1. Holds(thread[t]) /\ thread[t].id = NoAccount /\ thread[t].at = "check"
  BY DEF IInv, ThreadsHold, Holds, Requests, CheckAsks
<1>2. UNCHANGED expired
  BY DEF CheckAsks, proxyVars
<1>3. ThreadsHold' /\ thread'[t].id = NoAccount
      /\ \A u \in Threads \ {t} : thread'[u] = thread[u]
  <2>1. CASE Ends(t)
    BY <1>2, <2>1, EndsHolds DEF Idle
  <2>2. CASE thread' = [thread EXCEPT ![t] = r]
    <3>1. r \in ThreadStates /\ r.at = "answer" /\ r.id = thread[t].id /\ r.rows = rows
      BY <1>1 DEF IInv, ProxyHolds, Holds, ThreadStates, Steps
    <3>2. Holds(r)
      BY <1>1, <3>1 DEF IInv, ProxyHolds, Holds, Requests
    <3> HIDE DEF r
    <3> QED
      BY <1>1, <1>2, <2>2, <3>1, <3>2, Becomes DEF IInv
  <2> QED
    BY <2>1, <2>2 DEF CheckAsks
<1>4. CardsWatched'
  BY <1>1, <1>3, AccountsAssumption DEF IInv, CardsWatched, CheckAsks, Named
<1> QED
  BY <1>3, <1>4 DEF IInv, CheckAsks, ConnectionsHold, ProxyHolds, OthersHold, proxyVars, uiVars

LEMMA CheckInsertsHolds == ASSUME IInv, NEW t \in Threads, CheckInserts(t) PROVE IInv'
<1>1. Holds(thread[t]) /\ thread[t].id = NoAccount /\ thread[t].at = "answer"
  BY DEF IInv, ThreadsHold, Holds, Requests, CheckInserts
<1>2. ThreadsHold' /\ thread'[t] = Idle /\ \A u \in Threads \ {t} : thread'[u] = thread[u]
  BY EndsHolds DEF CheckInserts, proxyVars
<1>3. PICK named \in SUBSET Named :
        connections' = [a \in Ids |->
          IF a = NoAccount \/ connections[a].exists \/ thread[t].rows[a] = NoToken
          THEN connections[a]
          ELSE Connection(thread[t].rows[a], a \in named)]
  BY DEF CheckInserts
<1>4. ASSUME NEW a \in Ids
      PROVE  /\ ConnectionHolds(a, connections'[a])
             /\ connections'[a] = connections[a] \/ ~connections'[a].fetching
  <2>1. CASE connections'[a] = connections[a]
    BY <2>1 DEF IInv, ConnectionsHold
  <2>2. CASE a \in Accounts /\ connections'[a] = Connection(thread[t].rows[a], a \in named)
    <3> DEFINE conn == Connection(thread[t].rows[a], a \in named)
    <3>1. thread[t].rows[a] \in Own(a) /\ thread[t].rows[a] \in AnyToken
      BY <1>1, <2>2, OwnTokens DEF Holds
    <3>2. conn \in Connections /\ conn.exists /\ ~conn.fetching /\ conn.token \in Own(a)
      BY <3>1 DEF Connection, Connections
    <3> HIDE DEF conn
    <3>3. ConnectionHolds(a, conn)
      BY <2>2, <3>2, OfTokens DEF ConnectionHolds
    <3> QED
      BY <2>2, <3>2, <3>3 DEF conn
  <2> QED
    BY <1>3, <2>1, <2>2 DEF Ids
<1>5. ConnectionsHold'
  BY <1>3, <1>4 DEF ConnectionsHold, ConnectionHolds
<1>6. CardsWatched'
  BY <1>1, <1>2, <1>4, AccountsAssumption DEF IInv, CardsWatched, Named, Ids
<1> QED
  BY <1>2, <1>5, <1>6 DEF IInv, CheckInserts, ProxyHolds, OthersHold, proxyVars, uiVars

-----------------------------------------------------------------------------
(* The steps of a fetch.                                                   *)

(* The token of the fetch for a card that is watched belongs to that       *)
(* account alone, so it is the account that is found by it.                *)
LEMMA FetchBeginsHolds == ASSUME IInv, NEW t \in Threads, FetchBegins(t) PROVE IInv'
<1> DEFINE token == thread[t].token
<1>1. /\ Holds(thread[t]) /\ token # NoToken
      /\ thread[t].id = NoAccount /\ thread[t].at = "begin"
  BY DEF IInv, ThreadsHold, Holds, Requests, FetchBegins
<1>2. UNCHANGED expired
  BY DEF FetchBegins, proxyVars
<1>3. CASE ByToken(token) = {}
  <2>1. /\ ThreadsHold' /\ UNCHANGED connections
        /\ \A u \in Threads \ {t} : thread'[u] = thread[u]
    BY <1>2, <1>3, EndsHolds DEF FetchBegins
  <2>2. \A a \in Ids : connections[a].token # token
    BY <1>3 DEF ByToken, Holders
  <2>3. CardsWatched'
    BY <1>1, <2>1, <2>2, AccountsAssumption DEF IInv, CardsWatched, Named, Ids
  <2> QED
    BY <2>1, <2>3 DEF IInv, FetchBegins, ConnectionsHold, ProxyHolds, OthersHold,
                      proxyVars, uiVars
<1>4. CASE ByToken(token) # {}
  <2> DEFINE r(a) == [thread[t] EXCEPT !.at = "graph", !.id = a]
  <2>1. PICK a \in ByToken(token) :
          /\ connections' = [connections EXCEPT ![a].fetching = TRUE]
          /\ thread' = [thread EXCEPT ![t] = r(a)]
    BY <1>4 DEF FetchBegins
  <2>2. a \in Ids /\ connections[a].token = token
    BY DEF ByToken, Holders, Ids
  <2>3. token \in Of(a) /\ ConnectionHolds(a, connections[a])
    BY <2>2 DEF IInv, ConnectionsHold, ConnectionHolds
  <2>4. /\ r(a) \in ThreadStates /\ r(a).at = "graph" /\ r(a).id = a
        /\ r(a).token = token /\ r(a).rows = thread[t].rows
    BY <1>1, <2>2 DEF Holds, ThreadStates, Steps
  <2>5. Holds(r(a))
    BY <1>1, <2>3, <2>4 DEF Holds, Requests
  <2>6. ThreadsHold
    BY DEF IInv
  <2> HIDE DEF r
  <2>7. /\ ThreadsHold' /\ thread'[t].id = a
        /\ \A u \in Threads \ {t} : thread'[u] = thread[u]
    BY <1>2, <2>1, <2>4, <2>5, <2>6, Becomes
  <2> DEFINE conn == [connections[a] EXCEPT !.fetching = TRUE]
  <2>8. /\ conn \in Connections /\ conn.exists /\ conn.token = token
        /\ conn.loaded = connections[a].loaded
    <3>1. connections[a].exists
      BY <1>1, <2>2, <2>3 DEF ConnectionHolds, NoConnection
    <3> QED
      BY <2>2, <2>3, <3>1 DEF ConnectionHolds, Connections
  <2>9. ConnectionHolds(a, conn)
    BY <2>2, <2>3, <2>8 DEF ConnectionHolds
  <2>10. connections' = [connections EXCEPT ![a] = conn]
    BY <2>1
  <2> HIDE DEF conn
  <2>11. /\ connections' \in [Ids -> Connections]
         /\ connections'[a] = conn
         /\ \A b \in Ids \ {a} : connections'[b] = connections[b]
    BY <2>2, <2>8, <2>10 DEF IInv, ConnectionsHold
  <2>12. ConnectionsHold'
    BY <2>9, <2>11 DEF IInv, ConnectionsHold, ConnectionHolds
  <2>13. ASSUME NEW b \in Named, token \in Own(b) PROVE b = a
    <3>1. token[1] = b /\ b \in Aliases(a) \cap Accounts
      BY <1>1, <2>2, <2>3, <2>13, Owner, OwnersDiffer DEF Named
    <3> QED
      BY <3>1 DEF Named, Aliases
  <2>14. CardsWatched'
    BY <1>1, <2>7, <2>11, <2>13, AccountsAssumption DEF IInv, CardsWatched, Named, Ids
  <2> QED
    BY <2>7, <2>12, <2>14 DEF IInv, FetchBegins, ProxyHolds, OthersHold, proxyVars, uiVars
<1> QED
  BY <1>3, <1>4

(* What the steps that only go on have in common.                          *)
LEMMA GoesOnHolds ==
  ASSUME IInv, NEW t \in Threads, thread[t].at \in Requests, NEW where \in Requests,
         Goes(t, where), where # "graph", where # "refreshed",
         where = "profile" => thread[t].at = "graph",
         where \in {"refresh", "store"} => thread[t].id \in Accounts,
         where \in {"refresh", "store", "refused"} /\ thread[t].id \in Accounts
           => HasExpired(thread[t].id),
         UNCHANGED <<connections, uiVars, expired>>, ProxyHolds', OthersHold'
  PROVE  IInv'
<1>1. /\ ThreadsHold' /\ thread'[t].id = thread[t].id
      /\ \A u \in Threads \ {t} : thread'[u] = thread[u]
  BY GoesHolds
<1>2. CardsWatched'
  BY <1>1, LoadingKept DEF IInv, Requests
<1> QED
  BY <1>1, <1>2 DEF IInv, ConnectionsHold

LEMMA GraphAnswersHolds == ASSUME IInv, NEW t \in Threads, GraphAnswers(t) PROVE IInv'
<1> DEFINE token == thread[t].token
<1>1. /\ thread[t].at = "graph" /\ thread[t].id \in Ids
      /\ token \in Of(thread[t].id) /\ token # NoToken
  BY DEF IInv, ThreadsHold, Holds, ThreadStates, GraphAnswers
<1>2. ProxyHolds' /\ OthersHold' /\ UNCHANGED <<connections, uiVars, expired>>
  BY DEF IInv, GraphAnswers, ProxyHolds, OthersHold, proxyVars, uiVars
<1>3. CASE ~(token[2] > expired[token[1]])
  <2>1. HasExpired(thread[t].id)
    <3>1. token[1] \in Accounts /\ token \in Own(token[1])
      BY <1>1, Owner
    <3>2. token[2] \in Nat
      BY <1>1, <3>1, BoundsAssumption DEF Own
    <3>3. token[2] <= expired[token[1]]
      BY <1>3, <3>1, <3>2, BoundsAssumption DEF IInv, ProxyHolds
    <3> QED
      BY <1>1, <3>3, ExpiredToken DEF IInv, ProxyHolds
  <2>2. CASE thread[t].id = NoAccount /\ Goes(t, "refused")
    BY <1>1, <1>2, <2>1, <2>2, GoesOnHolds DEF Requests
  <2>3. CASE thread[t].id # NoAccount /\ Goes(t, "refresh")
    BY <1>1, <1>2, <2>1, <2>3, GoesOnHolds DEF Requests, Ids
  <2> QED
    BY <1>3, <2>2, <2>3 DEF GraphAnswers
<1>4. CASE token[2] > expired[token[1]]
  <2>1. Goes(t, "profile") \/ Goes(t, "nothing")
    BY <1>4 DEF GraphAnswers
  <2> QED
    BY <1>1, <1>2, <2>1, GoesOnHolds DEF Requests
<1> QED
  BY <1>3, <1>4

LEMMA GraphFailsHolds == ASSUME IInv, NEW t \in Threads, GraphFails(t) PROVE IInv'
<1>1. OthersHold'
  BY BoundsAssumption DEF IInv, GraphFails, OthersHold, uiVars
<1>2. ProxyHolds' /\ UNCHANGED <<connections, uiVars, expired>>
  BY DEF IInv, GraphFails, ProxyHolds, proxyVars
<1>3. thread[t].at = "graph" /\ Goes(t, "nothing")
  BY DEF GraphFails
<1> QED
  BY <1>1, <1>2, <1>3, GoesOnHolds DEF Requests

LEMMA RefreshReadsHolds == ASSUME IInv, NEW t \in Threads, RefreshReads(t) PROVE IInv'
<1>1. thread[t].at = "refresh" /\ thread[t].id \in Accounts /\ HasExpired(thread[t].id)
  BY DEF IInv, ThreadsHold, Holds, RefreshReads
<1>2. ProxyHolds' /\ OthersHold' /\ UNCHANGED <<connections, uiVars, expired>>
  BY DEF IInv, RefreshReads, ProxyHolds, OthersHold, proxyVars, uiVars
<1>3. Goes(t, "store") \/ Goes(t, "refused")
  BY DEF RefreshReads
<1> QED
  BY <1>1, <1>2, <1>3, GoesOnHolds DEF Requests

(* A step that has written the connection of its thread.                   *)
LEMMA WritesHolds ==
  ASSUME IInv, NEW t \in Threads, thread[t].at \in Requests, NEW to \in Ids,
         NEW conn, Moves(thread[t].id, to, conn), ~conn.fetching,
         connections[thread[t].id].exists => conn.exists /\ ConnectionHolds(to, conn),
         ThreadsHold', \A u \in Threads \ {t} : thread'[u] = thread[u],
         UNCHANGED <<uiVars, proxyVars>>
  PROVE  IInv'
<1> DEFINE a == thread[t].id
<1>1. a \in Ids
  BY DEF IInv, ThreadsHold, Holds, ThreadStates
<1>2. /\ ConnectionsHold'
      /\ connections'[a] = IF connections[a].exists /\ to = a THEN conn ELSE NoConnection
      /\ \A b \in Ids \ {a} : \/ connections'[b] = connections[b]
                               \/ connections'[b] = conn
  BY <1>1, MoveHolds DEF IInv
<1>3. ~connections'[a].fetching
  BY <1>2 DEF NoConnection
<1>4. thread[t].at # "begin"
  BY DEF Requests
<1>5. CardsWatched'
  BY <1>2, <1>3, <1>4 DEF IInv, CardsWatched, Named, Ids
<1> QED
  BY <1>2, <1>5 DEF IInv, ProxyHolds, OthersHold, uiVars, proxyVars

LEMMA ProfileAppliedHolds == ASSUME IInv, NEW t \in Threads, ProfileApplied(t) PROVE IInv'
<1> DEFINE a == thread[t].id
           owner == thread[t].token[1]
<1>1. thread[t].at \in Requests /\ a \in Ids /\ Holds(thread[t])
  BY DEF IInv, ThreadsHold, Holds, ThreadStates, Requests, ProfileApplied
<1>2. ConnectionHolds(a, connections[a]) /\ connections[a] \in Connections
  BY <1>1 DEF IInv, ConnectionsHold, ConnectionHolds
<1>3. UNCHANGED <<uiVars, proxyVars>>
  BY DEF ProfileApplied
<1>4. ThreadsHold' /\ \A u \in Threads \ {t} : thread'[u] = thread[u]
  BY EndsHolds DEF ProfileApplied, proxyVars
<1>5. CASE thread[t].at = "profile"
  <2> DEFINE conn == [connections[a] EXCEPT !.fetching = FALSE, !.loaded = TRUE]
             to == GraphId[owner]
  <2>1. Moves(a, to, conn)
    BY <1>5 DEF ProfileApplied
  <2>2. owner \in Aliases(a) \cap Accounts
    BY <1>1, <1>5, Owner DEF Holds
  <2>3. to \in Ids /\ Of(a) \subseteq Of(to)
    BY <1>1, <2>2, Rekeyed
  <2>4. /\ conn \in Connections /\ conn.exists = connections[a].exists
        /\ conn.token = connections[a].token /\ ~conn.fetching /\ conn.loaded
    BY <1>2 DEF Connections
  <2> HIDE DEF conn, to
  <2>5. connections[a].exists => conn.exists /\ ConnectionHolds(to, conn)
    BY <1>2, <2>3, <2>4 DEF ConnectionHolds
  <2> QED
    BY <1>1, <1>3, <1>4, <2>1, <2>3, <2>4, <2>5, WritesHolds
<1>6. CASE thread[t].at = "nothing"
  <2> DEFINE conn == [connections[a] EXCEPT !.fetching = FALSE]
  <2>1. Moves(a, a, conn)
    BY <1>6 DEF ProfileApplied, Updates
  <2>2. /\ conn \in Connections /\ conn.exists = connections[a].exists
        /\ conn.token = connections[a].token /\ ~conn.fetching
        /\ conn.loaded = connections[a].loaded
    BY <1>2 DEF Connections
  <2> HIDE DEF conn
  <2>3. connections[a].exists => conn.exists /\ ConnectionHolds(a, conn)
    BY <1>2, <2>2 DEF ConnectionHolds
  <2> QED
    BY <1>1, <1>3, <1>4, <2>1, <2>2, <2>3, WritesHolds
<1> QED
  BY <1>5, <1>6 DEF ProfileApplied

LEMMA RefreshRefusedHolds == ASSUME IInv, NEW t \in Threads, RefreshRefused(t) PROVE IInv'
<1> DEFINE a == thread[t].id
           conn == [connections[a] EXCEPT !.token = NoToken, !.fetching = FALSE]
<1>1. thread[t].at \in Requests /\ a \in Ids
  BY DEF IInv, ThreadsHold, Holds, ThreadStates, Requests, RefreshRefused
<1>2. connections[a] \in Connections
  BY <1>1 DEF IInv, ConnectionsHold
<1>3. /\ conn \in Connections /\ conn.exists = connections[a].exists
      /\ conn.token = NoToken /\ ~conn.fetching
  BY <1>2 DEF Connections, AnyToken
<1>4. Moves(a, a, conn) /\ UNCHANGED <<uiVars, proxyVars>>
  BY DEF RefreshRefused, Updates
<1>5. ThreadsHold' /\ \A u \in Threads \ {t} : thread'[u] = thread[u]
  BY EndsHolds DEF RefreshRefused, proxyVars
<1> HIDE DEF conn
<1>6. connections[a].exists => conn.exists /\ ConnectionHolds(a, conn)
  BY <1>1, <1>3, OfTokens, OwnTokens DEF ConnectionHolds, Named
<1> QED
  BY <1>1, <1>3, <1>4, <1>5, <1>6, WritesHolds

LEMMA RefreshAppliedHolds == ASSUME IInv, NEW t \in Threads, RefreshApplied(t) PROVE IInv'
<1> DEFINE a == thread[t].id
           conn == [connections[a] EXCEPT !.token = thread[t].token, !.fetching = FALSE]
           r == [thread[t] EXCEPT !.at = "begin", !.id = NoAccount]
<1>1. /\ Holds(thread[t]) /\ thread[t].at \in Requests /\ a \in Accounts /\ a \in Ids
      /\ thread[t].token \in Own(a) /\ thread[t].token # NoToken
  BY DEF IInv, ThreadsHold, Holds, Requests, RefreshApplied, Ids
<1>2. connections[a] \in Connections /\ thread[t].token \in AnyToken
  BY <1>1, OwnTokens DEF IInv, ConnectionsHold
<1>3. /\ conn \in Connections /\ conn.exists = connections[a].exists
      /\ conn.token = thread[t].token /\ ~conn.fetching
  BY <1>1, <1>2 DEF Connections
<1>4. Moves(a, a, conn) /\ UNCHANGED <<uiVars, proxyVars>>
  BY DEF RefreshApplied, Updates
<1>5. ThreadsHold' /\ \A u \in Threads \ {t} : thread'[u] = thread[u]
  <2>1. /\ r \in ThreadStates /\ r.at = "begin" /\ r.id = NoAccount
        /\ r.token = thread[t].token /\ r.rows = thread[t].rows
    BY <1>1 DEF Holds, ThreadStates, Steps, Ids
  <2>2. Holds(r)
    BY <1>1, <2>1 DEF Holds, Requests
  <2>3. thread' = [thread EXCEPT ![t] = r] /\ UNCHANGED expired
    BY DEF RefreshApplied, proxyVars
  <2>4. ThreadsHold
    BY DEF IInv
  <2> HIDE DEF r
  <2> QED
    BY <2>2, <2>3, <2>4, Becomes
<1> HIDE DEF conn
<1>6. connections[a].exists => conn.exists /\ ConnectionHolds(a, conn)
  BY <1>1, <1>3, OfTokens DEF ConnectionHolds
<1> QED
  BY <1>1, <1>3, <1>4, <1>5, <1>6, WritesHolds

LEMMA RefreshStoresHolds == ASSUME IInv, NEW t \in Threads, RefreshStores(t) PROVE IInv'
<1> DEFINE a == thread[t].id
           new == <<a, issued[a] + 1>>
           r == [thread[t] EXCEPT !.at = "refreshed", !.token = new]
<1>1. Holds(thread[t]) /\ thread[t].at = "store" /\ a \in Accounts /\ HasExpired(a)
  BY DEF IInv, ThreadsHold, Holds, Requests, RefreshStores
<1>2. UNCHANGED <<connections, uiVars, expired>> /\ OthersHold'
  BY DEF IInv, RefreshStores, OthersHold, uiVars
<1>3. CASE Goes(t, "refused") /\ UNCHANGED <<rows, issued>>
  <2>1. ProxyHolds'
    BY <1>2, <1>3 DEF IInv, ProxyHolds
  <2> QED
    BY <1>1, <1>2, <1>3, <2>1, GoesOnHolds DEF Requests
<1>4. CASE /\ issued[a] < MaxTokens
           /\ issued' = [issued EXCEPT ![a] = @ + 1]
           /\ rows' = [rows EXCEPT ![a] = new]
           /\ thread' = [thread EXCEPT ![t] = r] \/ Goes(t, "refused")
  <2>1. issued[a] \in Nat
    BY <1>1 DEF IInv, ProxyHolds
  <2>2. new \in Own(a) \ {NoToken} /\ new \in AnyToken /\ issued[a] + 1 \in 0..MaxTokens
    BY <1>1, <1>4, <2>1, IssuedToken, OwnTokens, BoundsAssumption
  <2>3. ProxyHolds'
    BY <1>1, <1>2, <1>4, <2>2 DEF IInv, ProxyHolds, Rows
  <2>4. CASE Goes(t, "refused")
    BY <1>1, <1>2, <2>3, <2>4, GoesOnHolds DEF Requests
  <2>5. CASE thread' = [thread EXCEPT ![t] = r]
    <3>1. /\ r \in ThreadStates /\ r.at = "refreshed" /\ r.id = a
          /\ r.token = new /\ r.rows = thread[t].rows
      BY <1>1, <2>2 DEF Holds, ThreadStates, Steps
    <3>2. Holds(r)
      BY <1>1, <2>2, <3>1 DEF Holds, Requests
    <3>3. ThreadsHold
      BY DEF IInv
    <3> HIDE DEF r
    <3>4. /\ ThreadsHold' /\ thread'[t].id = a
          /\ \A u \in Threads \ {t} : thread'[u] = thread[u]
      BY <1>2, <2>5, <3>1, <3>2, <3>3, Becomes
    <3>5. CardsWatched'
      BY <1>1, <1>2, <3>4, LoadingKept DEF IInv
    <3> QED
      BY <1>2, <2>3, <3>4, <3>5 DEF IInv, ConnectionsHold
  <2> QED
    BY <1>4, <2>4, <2>5
<1> QED
  BY <1>3, <1>4 DEF RefreshStores

-----------------------------------------------------------------------------
(* The theorems.                                                           *)

LEMMA StepHolds == IInv /\ [Next]_vars => IInv'
<1> SUFFICES ASSUME IInv, [Next]_vars PROVE IInv'
  OBVIOUS
<1>1. CASE UNCHANGED vars
  BY <1>1 DEF vars, proxyVars, uiVars, IInv, ConnectionsHold, ThreadsHold, Holds, HasExpired, ProxyHolds,
              OthersHold, CardsWatched
<1>2. ASSUME NEW a \in Accounts, ShowCard(a) \/ Disconnect(a) \/ SignsIn(a) \/ Expires(a)
      PROVE IInv'
  BY <1>2, ShowCardHolds, DisconnectHolds, SignsInHolds, ExpiresHolds
<1>3. CASE DeleteReturns \/ OpenDialog \/ InitiateLogin \/ Done \/ CloseDialog
  BY <1>3, DeleteReturnsHolds, DialogHolds, DoneHolds
<1>4. ASSUME NEW t \in Threads, ThreadStep(t) PROVE IInv'
  <2>1. CASE CheckAsks(t) \/ CheckInserts(t) \/ FetchBegins(t)
    BY <2>1, CheckAsksHolds, CheckInsertsHolds, FetchBeginsHolds
  <2>2. CASE GraphAnswers(t) \/ GraphFails(t) \/ ProfileApplied(t)
    BY <2>2, GraphAnswersHolds, GraphFailsHolds, ProfileAppliedHolds
  <2>3. CASE RefreshReads(t) \/ RefreshStores(t) \/ RefreshApplied(t) \/ RefreshRefused(t)
    BY <2>3, RefreshReadsHolds, RefreshStoresHolds, RefreshAppliedHolds, RefreshRefusedHolds
  <2> QED
    BY <1>4, <2>1, <2>2, <2>3 DEF ThreadStep
<1> QED
  BY <1>1, <1>2, <1>3, <1>4 DEF Next

(* The inductive invariant holds in every reachable state.                 *)
THEOREM Invariance == Spec => []IInv
BY InitHolds, StepHolds, PTL DEF Spec

(* Connections, threads and rows keep their types: what a thread writes is *)
(* a connection that was in the list, of its account or of the id that     *)
(* Graph gives.                                                            *)
THEOREM TypeCorrectness == Spec => []TypeOK
<1>1. IInv => TypeOK
  BY DEF IInv, TypeOK, ConnectionsHold, ConnectionHolds, ThreadsHold, ThreadStates, ProxyHolds,
         OthersHold, Rows
<1> QED
  BY <1>1, Invariance, PTL

(* However many cards are shown and threads run, a card that loads has a   *)
(* thread that will end that.                                              *)
THEOREM LoadingIsWatched == Spec => []LoadingHasAThread
<1>1. IInv => LoadingHasAThread
  BY DEF IInv, CardsWatched, LoadingHasAThread
<1> QED
  BY <1>1, Invariance, PTL

(* What is there, and changes at a step other than the user's.             *)
Kept(a) ==
  /\ connections[a].exists /\ connections'[a].exists
  /\ \/ connections'[a].token \in {connections[a].token} \cup (AnyToken \ {NoToken})
     \/ HasExpired(a)
Added(a) ==
  /\ ~connections[a].exists /\ ~Connected(a)
  /\ \/ \E t \in Threads : thread[t].rows[a] # NoToken
     \/ \E b \in Aliases(a) \cap Accounts : connections[b].exists
Moved(a) ==
  /\ connections[a].exists /\ ~connections'[a].exists
  /\ GraphId[a] # a /\ connections'[GraphId[a]].exists

LEMMA ThreadWrites ==
  ASSUME IInv, NEW t \in Threads, ThreadStep(t), NEW a \in Accounts,
         connections'[a] # connections[a]
  PROVE  Kept(a) \/ Added(a) \/ Moved(a)
<1> DEFINE id == thread[t].id
<1>1. /\ ConnectionsHold /\ connections \in [Ids -> Connections] /\ a \in Ids
      /\ connections[a].exists \/ connections[a] = NoConnection
      /\ Holds(thread[t])
  BY DEF IInv, ConnectionsHold, ConnectionHolds, ThreadsHold, Ids
<1>2. CASE CheckInserts(t)
  BY <1>1, <1>2 DEF CheckInserts, Added, Connected, NoConnection
<1>3. CASE FetchBegins(t)
  <2>1. PICK b \in ByToken(thread[t].token) :
          connections' = [connections EXCEPT ![b].fetching = TRUE]
    BY <1>3 DEF FetchBegins
  <2>2. b = a /\ connections[a].token = thread[t].token /\ thread[t].token # NoToken
    BY <1>1, <1>3, <2>1 DEF ByToken, Holders, Holds, FetchBegins
  <2>3. connections[a] \in Connections
    BY <1>1
  <2>4. connections'[a].exists = connections[a].exists
        /\ connections'[a].token = connections[a].token
    BY <1>1, <2>1, <2>2, <2>3 DEF Connections
  <2> QED
    BY <1>1, <2>2, <2>4 DEF Kept, NoConnection
<1>4. ASSUME NEW conn, Updates(id, conn),
             connections[id].exists => ConnectionHolds(id, conn) /\ conn.exists
      PROVE  id = a /\ connections[a].exists /\ connections'[a] = conn
  <2>1. Moves(id, id, conn) /\ id \in Ids
    BY <1>1, <1>4 DEF Updates, Holds, ThreadStates
  <2>2. /\ connections'[id] = IF connections[id].exists THEN conn ELSE NoConnection
        /\ \A b \in Ids \ {id} : connections'[b] = connections[b] \/ b = id
    BY <1>1, <1>4, <2>1, MoveHolds
  <2> HIDE DEF id
  <2>3. id = a
    BY <1>1, <2>2
  <2> QED
    BY <1>1, <2>2, <2>3
<1>5. /\ id \in Ids /\ ConnectionHolds(id, connections[id])
      /\ connections[id] \in Connections
  BY <1>1 DEF Holds, ThreadStates, ConnectionsHold
<1>6. CASE ProfileApplied(t) /\ thread[t].at = "profile"
  <2> DEFINE owner == thread[t].token[1]
             to == GraphId[owner]
             conn == [connections[id] EXCEPT !.fetching = FALSE, !.loaded = TRUE]
  <2>1. Moves(id, to, conn)
    BY <1>6 DEF ProfileApplied
  <2>2. owner \in Aliases(id) \cap Accounts
    BY <1>1, <1>5, <1>6, Owner DEF Holds
  <2>3. to \in Ids /\ Of(id) \subseteq Of(to) /\ (to # id => id = owner)
    BY <1>5, <2>2, Rekeyed
  <2>4. /\ conn \in Connections /\ conn.exists = connections[id].exists
        /\ conn.token = connections[id].token /\ conn.loaded
    BY <1>5 DEF Connections
  <2> HIDE DEF conn
  <2>5. connections[id].exists => ConnectionHolds(to, conn) /\ conn.exists
    BY <1>5, <2>3, <2>4 DEF ConnectionHolds
  <2> HIDE DEF to
  <2>6. /\ connections'[id] = IF connections[id].exists /\ to = id THEN conn ELSE NoConnection
        /\ \A b \in Ids \ {id} : \/ connections'[b] = connections[b]
                                  \/ /\ b = to /\ connections'[b] = conn
                                     /\ ~connections[b].exists /\ connections[id].exists
        /\ connections[id].exists => connections'[to].exists
    BY <1>1, <1>5, <2>1, <2>3, <2>5, MoveHolds
  <2>7. CASE a # id
    <3>1. a = to /\ ~connections[a].exists /\ connections[id].exists
      BY <1>1, <2>6, <2>7
    <3>2. id \in Aliases(a) \cap Accounts
      BY <2>2, <2>3, <2>7, <3>1 DEF Aliases, to
    <3> QED
      BY <1>1, <3>1, <3>2 DEF Added, Connected, NoConnection
  <2>8. CASE a = id
    <3>1. connections[a].exists
      BY <1>1, <2>6, <2>8
    <3>2. CASE to = a
      BY <2>4, <2>6, <2>8, <3>1, <3>2 DEF Kept
    <3>3. CASE to # a
      BY <2>3, <2>6, <2>8, <3>1, <3>3 DEF Moved, to, NoConnection
    <3> QED
      BY <3>2, <3>3
  <2> QED
    BY <2>7, <2>8
<1>7. CASE ProfileApplied(t) /\ thread[t].at = "nothing"
  <2> DEFINE conn == [connections[id] EXCEPT !.fetching = FALSE]
  <2>1. Updates(id, conn)
    BY <1>7 DEF ProfileApplied
  <2>2. /\ conn \in Connections /\ conn.exists = connections[id].exists
        /\ conn.token = connections[id].token /\ conn.loaded = connections[id].loaded
    BY <1>5 DEF Connections
  <2> HIDE DEF conn
  <2>3. connections[id].exists => ConnectionHolds(id, conn) /\ conn.exists
    BY <1>5, <2>2 DEF ConnectionHolds
  <2>4. id = a /\ connections[a].exists /\ connections'[a] = conn
    BY <1>4, <2>1, <2>3
  <2> QED
    BY <2>2, <2>4 DEF Kept
<1>8. CASE RefreshApplied(t)
  <2> DEFINE conn == [connections[id] EXCEPT !.token = thread[t].token, !.fetching = FALSE]
  <2>1. Updates(id, conn)
    BY <1>8 DEF RefreshApplied
  <2>2. id \in Accounts /\ thread[t].token \in Own(id) \ {NoToken}
    BY <1>1, <1>8 DEF Holds, RefreshApplied
  <2>3. thread[t].token \in AnyToken \ {NoToken} /\ thread[t].token \in Of(id)
    BY <1>5, <2>2, OwnTokens, OfTokens
  <2>4. /\ conn \in Connections /\ conn.exists = connections[id].exists
        /\ conn.token = thread[t].token
    BY <1>5, <2>3 DEF Connections
  <2> HIDE DEF conn
  <2>5. connections[id].exists => ConnectionHolds(id, conn) /\ conn.exists
    BY <2>2, <2>3, <2>4 DEF ConnectionHolds
  <2>6. id = a /\ connections[a].exists /\ connections'[a] = conn
    BY <1>4, <2>1, <2>5
  <2> QED
    BY <2>3, <2>4, <2>6 DEF Kept
<1>9. CASE RefreshRefused(t)
  <2> DEFINE conn == [connections[id] EXCEPT !.token = NoToken, !.fetching = FALSE]
  <2>1. Updates(id, conn) /\ thread[t].at = "refused"
    BY <1>9 DEF RefreshRefused
  <2>2. /\ conn \in Connections /\ conn.exists = connections[id].exists
        /\ conn.token = NoToken
    BY <1>5 DEF Connections, AnyToken
  <2> HIDE DEF conn
  <2>3. connections[id].exists => ConnectionHolds(id, conn) /\ conn.exists
    BY <1>5, <2>2, OfTokens, OwnTokens DEF ConnectionHolds, Named
  <2>4. id = a /\ connections[a].exists /\ connections'[a] = conn
    BY <1>4, <2>1, <2>3
  <2>5. HasExpired(a)
    BY <1>1, <2>1, <2>4 DEF Holds
  <2> QED
    BY <2>2, <2>4, <2>5 DEF Kept
<1>10. CASE \/ CheckAsks(t) \/ GraphAnswers(t) \/ GraphFails(t)
            \/ RefreshReads(t) \/ RefreshStores(t)
  BY <1>10 DEF CheckAsks, GraphAnswers, GraphFails, RefreshReads, RefreshStores
<1>11. ProfileApplied(t) => thread[t].at \in {"profile", "nothing"}
  BY DEF ProfileApplied
<1> QED
  BY <1>2, <1>3, <1>6, <1>7, <1>8, <1>9, <1>10, <1>11 DEF ThreadStep

LEMMA WhoWrites ==
  ASSUME IInv, Next, NEW a \in Accounts, connections'[a] # connections[a]
  PROVE  Kept(a) \/ Added(a) \/ Moved(a) \/ (Disconnect(a) /\ ~connections'[a].exists)
<1>1. connections \in [Ids -> Connections] /\ connections[a] \in Connections /\ a \in Ids
      /\ (connections[a].exists \/ connections[a] = NoConnection)
  BY DEF IInv, ConnectionsHold, ConnectionHolds, Ids
<1>2. ASSUME NEW b \in Accounts, ShowCard(b) PROVE Kept(a)
  <2>1. connections' = [connections EXCEPT ![b].fetching = TRUE] /\ Connected(b)
    BY <1>2 DEF ShowCard
  <2>2. b = a
    BY <1>1, <2>1
  <2>3. connections'[a].exists = connections[a].exists
        /\ connections'[a].token = connections[a].token
    BY <1>1, <2>1, <2>2 DEF Connections
  <2> QED
    BY <1>1, <2>1, <2>2, <2>3 DEF Kept, Connected, NoConnection
<1>3. ASSUME NEW b \in Accounts, Disconnect(b)
      PROVE  Disconnect(a) /\ ~connections'[a].exists
  BY <1>1, <1>3 DEF Disconnect, NoConnection
<1>4. ASSUME \/ \E b \in Accounts : SignsIn(b) \/ Expires(b)
             \/ DeleteReturns \/ OpenDialog \/ InitiateLogin \/ Done \/ CloseDialog
      PROVE  FALSE
  BY <1>4 DEF SignsIn, Expires, DeleteReturns, OpenDialog, InitiateLogin, Done, CloseDialog
<1>5. ASSUME NEW t \in Threads, ThreadStep(t) PROVE Kept(a) \/ Added(a) \/ Moved(a)
  BY <1>5, ThreadWrites
<1> QED
  BY <1>2, <1>3, <1>4, <1>5 DEF Next

(* Only the user takes an account from the list, or a profile that gives   *)
(* it another id, under which it is in the list then.                      *)
THEOREM RemovalIsTheUsers == Spec => OnlyTheUserRemoves
<1>1. ASSUME IInv, [Next]_vars, NEW a \in Accounts,
             connections[a].exists, ~connections'[a].exists
      PROVE  (removing' = a /\ UIRuns) \/ Moved(a)
  <2>1. Next /\ connections'[a] # connections[a]
    BY <1>1 DEF vars
  <2>2. Disconnect(a) \/ Moved(a)
    BY <1>1, <2>1, WhoWrites DEF Kept, Added
  <2> QED
    BY <2>2 DEF Disconnect
<1>2. IInv /\ [Next]_vars =>
        [\A a \in Accounts :
           connections[a].exists /\ ~connections'[a].exists
             => \/ removing' = a /\ UIRuns
                \/ GraphId[a] # a /\ connections'[GraphId[a]].exists]_vars
  BY <1>1 DEF Moved
<1> QED
  BY <1>2, Invariance, PTL DEF Spec, OnlyTheUserRemoves

(* A session is closed only for an account of which a token has expired.   *)
THEOREM SessionsCloseExpired == Spec => OnlyExpiredSessionsClose
<1>1. ASSUME IInv, [Next]_vars, NEW a \in Accounts,
             Connected(a), connections'[a].exists, connections'[a].token = NoToken
      PROVE  HasExpired(a)
  <2>1. Next /\ connections'[a] # connections[a]
    BY <1>1 DEF vars, Connected
  <2>2. Kept(a)
    BY <1>1, <2>1, WhoWrites DEF Added, Moved
  <2> QED
    BY <1>1, <2>2 DEF Kept, Connected
<1>2. IInv /\ [Next]_vars =>
        [\A a \in Accounts :
           Connected(a) /\ connections'[a].exists /\ connections'[a].token = NoToken
             => \E b \in Aliases(a) : expired[b] > 0]_vars
  BY <1>1 DEF HasExpired
<1> QED
  BY <1>2, Invariance, PTL DEF Spec, OnlyExpiredSessionsClose

(* Who may bring the row of an account to the proxy, and from there to a   *)
(* thread: a sign-in, or a thread that has read the row before.            *)
Brings(a) ==
  \/ SignsIn(a)
  \/ \E t \in Threads : thread[t].at = "store" /\ thread[t].id = a
  \/ rows[a] # NoToken
  \/ \E t \in Threads : thread[t].rows[a] # NoToken

LEMMA RowsComeFrom ==
  ASSUME IInv, Next, NEW a \in Accounts, rows'[a] # NoToken
  PROVE  Brings(a)
<1>1. rows \in Rows
  BY DEF IInv, ProxyHolds
<1>2. ASSUME NEW b \in Accounts, SignsIn(b) PROVE Brings(a)
  BY <1>1, <1>2 DEF SignsIn, Brings, Rows
<1>3. ASSUME NEW b \in Accounts, ShowCard(b) \/ Disconnect(b) \/ Expires(b) PROVE Brings(a)
  BY <1>3 DEF ShowCard, Disconnect, Expires, Brings, proxyVars
<1>4. CASE DeleteReturns
  BY <1>1, <1>4 DEF DeleteReturns, Brings, Rows
<1>5. CASE OpenDialog \/ InitiateLogin \/ Done \/ CloseDialog
  BY <1>5 DEF OpenDialog, InitiateLogin, Done, CloseDialog, Brings, proxyVars
<1>6. ASSUME NEW t \in Threads, RefreshStores(t) PROVE Brings(a)
  BY <1>1, <1>6 DEF RefreshStores, Brings, Rows
<1>7. ASSUME NEW t \in Threads, ThreadStep(t), ~RefreshStores(t) PROVE Brings(a)
  <2>1. UNCHANGED rows
    BY <1>7 DEF ThreadStep, CheckAsks, CheckInserts, FetchBegins, GraphAnswers, GraphFails,
                ProfileApplied, RefreshReads, RefreshApplied, RefreshRefused, proxyVars
  <2> QED
    BY <2>1 DEF Brings
<1> QED
  BY <1>2, <1>3, <1>4, <1>5, <1>6, <1>7 DEF Next

(* A thread is Empty for an account that it knows no row of.               *)
Empty(r, a) == r.rows[a] = NoToken /\ ~(r.at = "store" /\ r.id = a)

LEMMA ThreadsStayEmpty ==
  ASSUME IInv, Next, NEW a \in Accounts, rows[a] = NoToken,
         \A t \in Threads : Empty(thread[t], a), NEW u \in Threads
  PROVE  Empty(thread'[u], a)
<1>1. thread \in [Threads -> ThreadStates] /\ rows \in Rows /\ Empty(thread[u], a)
  BY DEF IInv, ThreadsHold, ProxyHolds
<1>2. Empty(Idle, a)
  BY DEF Empty, Idle, NoRows
<1>3. ASSUME NEW t \in Threads, Ends(t) PROVE Empty(thread'[u], a)
  BY <1>1, <1>2, <1>3 DEF Ends
<1>4. ASSUME NEW t \in Threads, NEW where, Goes(t, where),
             where # "store" \/ thread[t].id # a
      PROVE  Empty(thread'[u], a)
  <2>1. CASE u # t
    BY <1>1, <1>4, <2>1 DEF Goes
  <2>2. CASE u = t
    <3> DEFINE token == IF where = "profile" THEN thread[t].token ELSE NoToken
               r == [thread[t] EXCEPT !.at = where, !.token = token]
    <3>1. thread[t] \in ThreadStates /\ thread'[u] = r
      BY <1>1, <1>4, <2>2 DEF Goes
    <3>2. r.at = where /\ r.id = thread[t].id /\ r.rows = thread[t].rows
      BY <3>1 DEF ThreadStates
    <3> QED
      BY <1>1, <1>4, <2>2, <3>1, <3>2 DEF Empty
  <2> QED
    BY <2>1, <2>2
<1>5. ASSUME NEW where \in {"check", "begin"}, NEW token, Starts(where, token)
      PROVE  Empty(thread'[u], a)
  <2>1. PICK t \in Threads :
          thread' = [thread EXCEPT ![t] = [Idle EXCEPT !.at = where, !.token = token]]
    BY <1>5 DEF Starts
  <2> DEFINE r == [Idle EXCEPT !.at = where, !.token = token]
  <2>2. r.at = where /\ r.rows = NoRows
    BY DEF Idle
  <2>3. Empty(r, a)
    BY <2>2 DEF Empty, NoRows
  <2> HIDE DEF r
  <2>4. thread' = [thread EXCEPT ![t] = r]
    BY <2>1 DEF r
  <2> QED
    BY <1>1, <2>3, <2>4
<1>6. ASSUME NEW b \in Accounts, ShowCard(b) \/ Disconnect(b) \/ SignsIn(b) \/ Expires(b)
      PROVE  Empty(thread'[u], a)
  BY <1>1, <1>5, <1>6 DEF ShowCard, Disconnect, SignsIn, Expires
<1>7. CASE DeleteReturns \/ OpenDialog \/ InitiateLogin \/ Done \/ CloseDialog
  BY <1>1, <1>5, <1>7 DEF DeleteReturns, OpenDialog, InitiateLogin, Done, CloseDialog
<1>8. ASSUME NEW t \in Threads, ThreadStep(t) PROVE Empty(thread'[u], a)
  <2>1. CASE CheckInserts(t) \/ ProfileApplied(t) \/ RefreshRefused(t)
    BY <1>3, <2>1 DEF CheckInserts, ProfileApplied, RefreshRefused
  <2>2. CASE GraphAnswers(t)
    <3>1. PICK where \in {"refresh", "refused", "profile", "nothing"} : Goes(t, where)
      BY <2>2 DEF GraphAnswers
    <3> QED
      BY <1>4, <3>1
  <2>3. CASE GraphFails(t)
    BY <1>4, <2>3 DEF GraphFails
  <2>4. CASE RefreshReads(t)
    BY <1>4, <2>4 DEF RefreshReads
  <2>5. CASE CheckAsks(t)
    <3> DEFINE r == [thread[t] EXCEPT !.at = "answer", !.rows = rows]
    <3>1. thread[t] \in ThreadStates
      BY <1>1
    <3>2. r.at = "answer" /\ r.rows = rows
      BY <3>1 DEF ThreadStates
    <3>3. Empty(r, a)
      BY <3>2 DEF Empty
    <3>4. thread' = [thread EXCEPT ![t] = r] \/ Ends(t)
      BY <2>5 DEF CheckAsks
    <3> HIDE DEF r
    <3> QED
      BY <1>1, <1>3, <3>3, <3>4
  <2>6. CASE FetchBegins(t)
    <3>1. CASE Ends(t)
      BY <1>3, <3>1
    <3>2. CASE ~Ends(t)
      <4>1. PICK b \in Ids :
              thread' = [thread EXCEPT ![t] = [@ EXCEPT !.at = "graph", !.id = b]]
        BY <2>6, <3>2 DEF FetchBegins, ByToken, Holders, Ids
      <4> DEFINE r == [thread[t] EXCEPT !.at = "graph", !.id = b]
      <4>2. thread[t] \in ThreadStates
        BY <1>1
      <4>3. r.at = "graph" /\ r.rows = thread[t].rows
        BY <4>2 DEF ThreadStates
      <4>4. Empty(r, a)
        BY <4>3 DEF Empty
      <4>5. thread' = [thread EXCEPT ![t] = r]
        BY <4>1
      <4> HIDE DEF r
      <4> QED
        BY <1>1, <4>4, <4>5
    <3> QED
      BY <3>1, <3>2
  <2>7. CASE RefreshStores(t)
    <3>1. CASE Goes(t, "refused")
      BY <1>4, <3>1
    <3>2. CASE ~Goes(t, "refused")
      <4> DEFINE r == [thread[t] EXCEPT !.at = "refreshed",
                                        !.token = <<thread[t].id, issued[thread[t].id] + 1>>]
      <4>1. thread' = [thread EXCEPT ![t] = r]
        BY <2>7, <3>2 DEF RefreshStores
      <4>2. thread[t] \in ThreadStates
        BY <1>1
      <4>3. r.at = "refreshed" /\ r.rows = thread[t].rows
        BY <4>2 DEF ThreadStates
      <4>4. Empty(r, a)
        BY <4>3 DEF Empty
      <4> HIDE DEF r
      <4> QED
        BY <1>1, <4>1, <4>4
    <3> QED
      BY <3>1, <3>2
  <2>8. CASE RefreshApplied(t)
    <3> DEFINE r == [thread[t] EXCEPT !.at = "begin", !.id = NoAccount]
    <3>1. thread' = [thread EXCEPT ![t] = r]
      BY <2>8 DEF RefreshApplied
    <3>2. thread[t] \in ThreadStates
      BY <1>1
    <3>3. r.at = "begin" /\ r.rows = thread[t].rows
      BY <3>2 DEF ThreadStates
    <3>4. Empty(r, a)
      BY <3>3 DEF Empty
    <3> HIDE DEF r
    <3> QED
      BY <1>1, <3>1, <3>4
  <2> QED
    BY <1>8, <2>1, <2>2, <2>3, <2>4, <2>5, <2>6, <2>7, <2>8 DEF ThreadStep
<1> QED
  BY <1>6, <1>7, <1>8 DEF Next

(* What is gone from the list, the proxy and the threads comes back only   *)
(* by a sign-in, though a refresh stores its token without asking whether  *)
(* the row is still there.                                                 *)
THEOREM GoneUntilSignIn == Spec => GoneStaysGone
<1>1. ASSUME IInv, [Next]_vars, NEW a \in Accounts,
             \A b \in Aliases(a) : Gone(b), ~Gone(a)'
      PROVE  browser /\ ~browser'
  <2> Gone(a)
    BY <1>1 DEF Aliases
  <2>1. rows[a] = NoToken /\ \A t \in Threads : Empty(thread[t], a)
    BY <1>1 DEF Gone, Empty
  <2>2. Next
    BY <1>1 DEF vars, Gone
  <2>3. \A t \in Threads : Empty(thread'[t], a)
    BY <1>1, <2>1, <2>2, ThreadsStayEmpty
  <2>4. ~connections'[a].exists
    <3>1. CASE connections'[a] = connections[a]
      BY <1>1, <3>1 DEF Gone
    <3>2. CASE connections'[a] # connections[a]
      BY <1>1, <2>2, <3>2, WhoWrites DEF Gone, Kept, Added, Moved
    <3> QED
      BY <3>1, <3>2
  <2>5. rows'[a] # NoToken
    BY <1>1, <2>3, <2>4 DEF Gone, Empty
  <2>6. SignsIn(a)
    BY <1>1, <2>2, <2>5, RowsComeFrom DEF Brings, Gone
  <2> QED
    BY <2>6 DEF SignsIn
<1>2. IInv /\ [Next]_vars =>
        [\A a \in Accounts :
           (\A b \in Aliases(a) : Gone(b)) /\ ~Gone(a)' => browser /\ ~browser']_vars
  BY <1>1
<1> QED
  BY <1>2, Invariance, PTL DEF Spec, GoneStaysGone
=============================================================================
