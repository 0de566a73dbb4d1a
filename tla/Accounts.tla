------------------------------ MODULE Accounts ------------------------------
(***************************************************************************)
(* The connected Microsoft accounts of the client: ServicesState and its   *)
(* panel (minidfs/src/application/panels/services), the rows that the      *)
(* proxy keeps for them, and the answers of Microsoft Graph.               *)
(*                                                                         *)
(* The user interface runs on one thread.  Every check of the connections  *)
(* and every fetch of a profile runs on a detached thread of its own: it   *)
(* asks without the mutex, and applies the answer under the mutex to       *)
(* whatever the connections have become.  A token is written <<a, n>>: the *)
(* n-th that was issued for account a.                                     *)
(*                                                                         *)
(* An account is an id of the proxy's rows.  It may be another id than     *)
(* that of Graph's profile: a migration of the proxy's data base gave the  *)
(* rows of before the user's own id as a placeholder, and no names.        *)
(***************************************************************************)
EXTENDS Naturals

CONSTANTS
  Accounts,    \* Microsoft accounts, by the id of their row
  Threads,     \* bound: detached threads that run at a time
  NoAccount,   \* none; as a key of ms_connections, the empty id ""
  GraphId,     \* GraphId[a]: the "id" of a's profile, NoAccount without one
  MaxTokens    \* bound: tokens issued for an account

ASSUME AccountsAssumption == NoAccount \notin Accounts
ASSUME GraphAssumption ==
  /\ GraphId \in [Accounts -> Accounts \cup {NoAccount}]
  /\ \A a \in Accounts : GraphId[a] # NoAccount => GraphId[GraphId[a]] = GraphId[a]
ASSUME BoundsAssumption == MaxTokens \in Nat \ {0}

VARIABLES
  connections, \* ms_connections, by profile.id
  thread,      \* thread[t]: what detached thread t does
  removing,    \* the account the user interface deletes at the proxy
  modal,       \* show_ms_login_modal
  browser,     \* the sign-in page is open in the browser
  rows,        \* rows[a]: the token the proxy keeps for account a
  issued,      \* issued[a]: how many tokens were issued for it
  expired      \* expired[a]: how many of them Graph takes no more, oldest first

vars == <<connections, thread, removing, modal, browser, rows, issued, expired>>
proxyVars == <<rows, issued, expired>>
uiVars == <<removing, modal, browser>>

Ids == Accounts \cup {NoAccount}

(* The accounts that Graph knows under the id of their row.                *)
Named == {a \in Accounts : GraphId[a] = a}

NoToken == <<>>
AnyToken == (Accounts \X (1..MaxTokens)) \cup {NoToken}
Rows == [Accounts -> AnyToken]
NoRows == [a \in Accounts |-> NoToken]

(* is_authenticated is set exactly with a token, so the token stands for it *)
NoConnection == [exists |-> FALSE, token |-> NoToken, loaded |-> FALSE, fetching |-> FALSE]
Connection(token, loaded) ==
  [exists |-> TRUE, token |-> token, loaded |-> loaded, fetching |-> FALSE]
Connections == [exists : BOOLEAN, token : AnyToken, loaded : BOOLEAN, fetching : BOOLEAN]

Steps == {"idle", "check", "answer", "begin", "graph", "profile", "nothing",
          "refresh", "store", "refreshed", "refused"}
Idle == [at |-> "idle", id |-> NoAccount, token |-> NoToken, rows |-> NoRows]
(* The request of the thread is answered: its token is not used again,     *)
(* but for the profile, which is that of the token.                        *)
Goes(t, where) ==
  LET token == IF where = "profile" THEN thread[t].token ELSE NoToken
  IN  thread' = [thread EXCEPT ![t] = [@ EXCEPT !.at = where, !.token = token]]
Ends(t) == thread' = [thread EXCEPT ![t] = Idle]

(* Starts a detached thread.                                               *)
Starts(where, token) ==
  \E t \in Threads :
    /\ thread[t] = Idle
    /\ thread' = [thread EXCEPT ![t] = [Idle EXCEPT !.at = where, !.token = token]]

Connected(a) == connections[a].token # NoToken

(* find_by_token: the first connection that holds the token, if any.  The  *)
(* empty id comes before the others.                                       *)
Holders(token) == {a \in Ids : connections[a].token = token}
ByToken(token) == IF NoAccount \in Holders(token) THEN {NoAccount} ELSE Holders(token)

(* With a fault: inserted before the old one is erased.                    *)
MovesLate(from, to, conn) ==
  connections' =
    IF ~connections[from].exists THEN connections
    ELSE [connections EXCEPT ![to] = IF @.exists THEN @ ELSE conn,
                             ![from] = NoConnection]

(* find_by_ms_user_id, erase, insert: a thread writes a connection, if it  *)
(* is there still, and may do so under another id.  If there is one under  *)
(* that id, insert keeps it, and drops what it is given.                   *)
Moves(from, to, conn) ==
  connections' =
    IF ~connections[from].exists THEN connections
    ELSE [connections EXCEPT ![from] = NoConnection,
                             ![to] = IF @.exists THEN @ ELSE conn]

Updates(a, conn) == Moves(a, a, conn)

(* The constructor of ServicesState starts a check.                        *)
Init ==
  /\ connections = [a \in Ids |-> NoConnection]
  /\ \E t \in Threads : thread = [u \in Threads |-> IF u = t THEN [Idle EXCEPT !.at = "check"]
                                                            ELSE Idle]
  /\ removing = NoAccount
  /\ modal = FALSE
  /\ browser = FALSE
  /\ rows \in {r \in Rows : \A a \in Accounts : r[a] \in {NoToken, <<a, 1>>}}
  /\ issued = [a \in Accounts |-> IF rows[a] = NoToken THEN 0 ELSE 1]
  /\ expired = [a \in Accounts |-> 0]

-----------------------------------------------------------------------------
(* The user interface.                                                     *)

UIRuns == removing = NoAccount

(* A frame shows the card of an account, never that of the empty id.  A    *)
(* profile that is not loaded is fetched, unless it is being fetched.      *)
ShowCard(a) ==
  /\ UIRuns
  /\ Connected(a)
  /\ ~connections[a].loaded
  /\ ~connections[a].fetching
  /\ connections' = [connections EXCEPT ![a].fetching = TRUE]
  /\ Starts("begin", connections[a].token)
  /\ UNCHANGED <<uiVars, proxyVars>>

(* "Disconnect" or "Remove": first the connection, then the row, while the *)
(* user interface waits for the answer.                                    *)
Disconnect(a) ==
  /\ UIRuns
  /\ ~modal
  /\ connections[a].exists
  /\ connections' = [connections EXCEPT ![a] = NoConnection]
  /\ removing' = a
  /\ UNCHANGED <<thread, modal, browser, proxyVars>>

(* The answer is not looked at.                                            *)
DeleteReturns ==
  /\ removing # NoAccount
  /\ \/ rows' = [rows EXCEPT ![removing] = NoToken]
     \/ UNCHANGED rows
  /\ removing' = NoAccount
  /\ UNCHANGED <<connections, thread, modal, browser, issued, expired>>

(* "Add OneDrive" and "Reconnect" open the dialog.                         *)
OpenDialog ==
  /\ UIRuns
  /\ ~modal
  /\ modal' = TRUE
  /\ UNCHANGED <<connections, thread, removing, browser, proxyVars>>

(* "Sign in": the proxy names the page, and the browser opens it.          *)
InitiateLogin ==
  /\ modal
  /\ ~browser
  /\ browser' = TRUE
  /\ UNCHANGED <<connections, thread, removing, modal, proxyVars>>

(* "Done" checks the connections; the dialog may be closed without.        *)
Done ==
  /\ modal
  /\ modal' = FALSE
  /\ Starts("check", NoToken)
  /\ UNCHANGED <<connections, removing, browser, proxyVars>>

CloseDialog ==
  /\ modal
  /\ modal' = FALSE
  /\ UNCHANGED <<connections, thread, removing, browser, proxyVars>>

-----------------------------------------------------------------------------
(* The browser, the proxy and Microsoft on their own.                      *)

(* The row of a sign-in has the id that Graph gives.                       *)
SignsIn(a) ==
  /\ browser
  /\ a \in Named
  /\ issued[a] < MaxTokens
  /\ issued' = [issued EXCEPT ![a] = @ + 1]
  /\ rows' = [rows EXCEPT ![a] = <<a, issued[a] + 1>>]
  /\ browser' = FALSE
  /\ UNCHANGED <<connections, thread, removing, modal, expired>>

Expires(a) ==
  /\ expired[a] < issued[a]
  /\ expired' = [expired EXCEPT ![a] = @ + 1]
  /\ UNCHANGED <<connections, thread, uiVars, rows, issued>>

-----------------------------------------------------------------------------
(* check_connections on its thread.                                        *)

(* The proxy answers with its rows.  Without any, its answer is null and   *)
(* not a list, which is shown as an error, like a request that fails.      *)
CheckAsks(t) ==
  /\ thread[t].at = "check"
  /\ \/ /\ rows # NoRows
        /\ thread' = [thread EXCEPT ![t] = [@ EXCEPT !.at = "answer", !.rows = rows]]
     \/ Ends(t)
  /\ UNCHANGED <<connections, uiVars, proxyVars>>

(* insert: a connection that is there is kept as it is.  Accounts whose    *)
(* row has a name or an e-mail count as loaded; a row that the migration   *)
(* gave its id has neither.                                                *)
CheckInserts(t) ==
  /\ thread[t].at = "answer"
  /\ \E named \in SUBSET Named :
       connections' = [a \in Ids |->
         IF a = NoAccount \/ connections[a].exists \/ thread[t].rows[a] = NoToken
         THEN connections[a]
         ELSE Connection(thread[t].rows[a], a \in named)]
  /\ Ends(t)
  /\ UNCHANGED <<uiVars, proxyVars>>

-----------------------------------------------------------------------------
(* fetch_ms_user_profile on its thread.                                    *)

FetchBegins(t) ==
  /\ thread[t].at = "begin"
  /\ IF ByToken(thread[t].token) = {}
     THEN Ends(t) /\ UNCHANGED connections
     ELSE \E a \in ByToken(thread[t].token) :
            /\ connections' = [connections EXCEPT ![a].fetching = TRUE]
            /\ thread' = [thread EXCEPT ![t] = [@ EXCEPT !.at = "graph", !.id = a]]
  /\ UNCHANGED <<uiVars, proxyVars>>

(* Graph answers 401 to an expired token, which is refreshed if its        *)
(* connection has an id.                                                   *)
GraphAnswers(t) ==
  /\ thread[t].at = "graph"
  /\ LET token == thread[t].token
         taken == token[2] > expired[token[1]]
     IN  \/ taken /\ Goes(t, "profile")
         \/ ~taken /\ Goes(t, IF thread[t].id = NoAccount THEN "refused" ELSE "refresh")
  /\ UNCHANGED <<connections, uiVars, proxyVars>>

(* With a fault: no answer counts as an expired token.                     *)
GraphFailsAsExpired(t) ==
  /\ thread[t].at = "graph"
  /\ Goes(t, "refused")
  /\ UNCHANGED <<connections, uiVars, proxyVars>>

(* Another status than 2xx and 401, no answer, or one that does not parse, *)
(* like a profile with "mail": null, at every fetch.                       *)
GraphFails(t) ==
  /\ thread[t].at = "graph"
  /\ Goes(t, "nothing")
  /\ UNCHANGED <<connections, uiVars, proxyVars>>

(* With a profile the connection gets the id that Graph gives it.          *)
ProfileApplied(t) ==
  /\ LET a == thread[t].id
     IN  \/ /\ thread[t].at = "profile"
            /\ Moves(a, GraphId[thread[t].token[1]],
                     [connections[a] EXCEPT !.fetching = FALSE, !.loaded = TRUE])
         \/ /\ thread[t].at = "nothing"
            /\ Updates(a, [connections[a] EXCEPT !.fetching = FALSE])
  /\ Ends(t)
  /\ UNCHANGED <<uiVars, proxyVars>>

(* With a fault: a row is not needed.                                      *)
RefreshReadsAnyway(t) ==
  /\ thread[t].at = "refresh"
  /\ Goes(t, "store") \/ Goes(t, "refused")
  /\ UNCHANGED <<connections, uiVars, proxyVars>>

(* RefreshMSToken at the proxy looks for the row ...                       *)
RefreshReads(t) ==
  /\ thread[t].at = "refresh"
  /\ \/ rows[thread[t].id] # NoToken /\ Goes(t, "store")
     \/ Goes(t, "refused")
  /\ UNCHANGED <<connections, uiVars, proxyVars>>

(* ... asks Microsoft for a new token, which may refuse, and stores it,    *)
(* whatever became of the row.  The answer may be lost.                    *)
RefreshStores(t) ==
  /\ thread[t].at = "store"
  /\ LET a == thread[t].id
         new == <<a, issued[a] + 1>>
     IN  \/ /\ issued[a] < MaxTokens
            /\ issued' = [issued EXCEPT ![a] = @ + 1]
            /\ rows' = [rows EXCEPT ![a] = new]
            /\ \/ thread' = [thread EXCEPT ![t] = [@ EXCEPT !.at = "refreshed", !.token = new]]
               \/ Goes(t, "refused")
         \/ Goes(t, "refused") /\ UNCHANGED <<rows, issued>>
  /\ UNCHANGED <<connections, uiVars, expired>>

(* With a fault: the connection is not looked for.                         *)
RefreshAppliedAnyway(t) ==
  /\ thread[t].at = "refreshed"
  /\ connections' = [connections EXCEPT ![thread[t].id].token = thread[t].token,
                                        ![thread[t].id].fetching = FALSE]
  /\ thread' = [thread EXCEPT ![t] = [@ EXCEPT !.at = "begin", !.id = NoAccount]]
  /\ UNCHANGED <<uiVars, proxyVars>>

(* The new token is put into the connection, and the fetch begins again.   *)
RefreshApplied(t) ==
  /\ thread[t].at = "refreshed"
  /\ LET a == thread[t].id
     IN  Updates(a, [connections[a] EXCEPT !.token = thread[t].token, !.fetching = FALSE])
  /\ thread' = [thread EXCEPT ![t] = [@ EXCEPT !.at = "begin", !.id = NoAccount]]
  /\ UNCHANGED <<uiVars, proxyVars>>

(* With a fault: the fetch is not ended.                                   *)
RefreshRefusedLoading(t) ==
  /\ thread[t].at = "refused"
  /\ Updates(thread[t].id, [connections[thread[t].id] EXCEPT !.token = NoToken])
  /\ Ends(t)
  /\ UNCHANGED <<uiVars, proxyVars>>

(* "Session expired": the account stays, without a token.                  *)
RefreshRefused(t) ==
  /\ thread[t].at = "refused"
  /\ LET a == thread[t].id
     IN  Updates(a, [connections[a] EXCEPT !.token = NoToken, !.fetching = FALSE])
  /\ Ends(t)
  /\ UNCHANGED <<uiVars, proxyVars>>

-----------------------------------------------------------------------------
ThreadStep(t) ==
  \/ CheckAsks(t) \/ CheckInserts(t)
  \/ FetchBegins(t) \/ GraphAnswers(t) \/ GraphFails(t) \/ ProfileApplied(t)
  \/ RefreshReads(t) \/ RefreshStores(t) \/ RefreshApplied(t) \/ RefreshRefused(t)

Next ==
  \/ \E a \in Accounts : ShowCard(a) \/ Disconnect(a) \/ SignsIn(a) \/ Expires(a)
  \/ DeleteReturns \/ OpenDialog \/ InitiateLogin \/ Done \/ CloseDialog
  \/ \E t \in Threads : ThreadStep(t)

Spec == Init /\ [][Next]_vars

-----------------------------------------------------------------------------
(* Properties.                                                             *)

TypeOK ==
  /\ connections \in [Ids -> Connections]
  /\ \A a \in Ids : connections[a].exists \/ connections[a] = NoConnection
  /\ thread \in [Threads -> [at : Steps, id : Ids, token : AnyToken, rows : Rows]]
  /\ removing \in Ids
  /\ modal \in BOOLEAN /\ browser \in BOOLEAN
  /\ rows \in [Accounts -> AnyToken]
  /\ issued \in [Accounts -> 0..MaxTokens]
  /\ expired \in [Accounts -> 0..MaxTokens]

(* A card says that it loads the account only while a thread is under way  *)
(* that will end that, whatever other threads do to the connection: the    *)
(* flag is set by the frame, and cleared by another thread.  An account    *)
(* with another id at Graph is left out: once its token is under that id   *)
(* too, the fetch for its card may be that connection's.                   *)
LoadingHasAThread ==
  \A a \in Named :
    connections[a].fetching =>
      \E t \in Threads :
        \/ thread[t].at = "begin" /\ thread[t].token = connections[a].token
        \/ thread[t].id = a

(* The accounts that an id may stand for: its own, and what Graph calls so.*)
Aliases(a) == {a} \cup {b \in Accounts : GraphId[b] = a}

(* An account is told to reconnect only when a token of it has expired,    *)
(* not when a request merely failed.                                       *)
OnlyExpiredSessionsClose ==
  [][\A a \in Accounts :
       Connected(a) /\ connections'[a].exists /\ connections'[a].token = NoToken
         => \E b \in Aliases(a) : expired[b] > 0]_vars

(* Nothing but the user takes an account from the list, though the threads *)
(* erase and insert again, under the id that Graph gives: what they lose   *)
(* is in the list under that id.                                           *)
OnlyTheUserRemoves ==
  [][\A a \in Accounts :
       connections[a].exists /\ ~connections'[a].exists
         => \/ removing' = a /\ UIRuns
            \/ GraphId[a] # a /\ connections'[GraphId[a]].exists]_vars

(* An account that is gone from the list, from the proxy and from what is  *)
(* under way, under any id that Graph knows it by, comes back only by a    *)
(* new sign-in.                                                            *)
Gone(a) ==
  /\ ~connections[a].exists
  /\ rows[a] = NoToken
  /\ \A t \in Threads : thread[t].rows[a] = NoToken
                        /\ ~(thread[t].at = "store" /\ thread[t].id = a)

GoneStaysGone ==
  [][\A a \in Accounts :
       (\A b \in Aliases(a) : Gone(b)) /\ ~Gone(a)' => browser /\ ~browser']_vars
=============================================================================
