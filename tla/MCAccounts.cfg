\* Two accounts, of which Graph knows one by the id of the other, with two tokens
\* each, and two detached threads at a time.
SPECIFICATION Spec
CONSTANTS
  a1 = a1
  old = old
  Accounts = {a1, old}
  Threads = {t1, t2}
  NoAccount = NoAccount
  GraphId <- ProfileIds
  MaxTokens = 2
INVARIANTS
  TypeOK
  LoadingHasAThread
PROPERTIES
  OnlyExpiredSessionsClose
  OnlyTheUserRemoves
  GoneStaysGone
CHECK_DEADLOCK FALSE
