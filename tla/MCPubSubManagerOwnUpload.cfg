\* A subscriber uploads a file itself: is it still told of the others' uploads?
SPECIFICATION Spec
CONSTANTS
  Clients = {c1, c2}
  Reactors = {r1}
  NoReactor = NoReactor
  MaxChanges = 2
PROPERTY
  SubscribersAreNotified
CHECK_DEADLOCK FALSE
