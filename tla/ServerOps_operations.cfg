SPECIFICATION FairSpec
CONSTANTS
  prune1 = prune1
  prune2 = prune2
  restart1 = restart1
  Op = {prune1, prune2, restart1}
  Type = {"registry_prune", "haproxy_restart"}
  Host = {"haproxy_restart"}
  TypeOf <- Kinds
  Recover = Recover
  Workers = 2
  MaxRestarts = 1
INVARIANTS OneOfATypeRecovered
PROPERTIES EndIsFinal RowsEnd
CHECK_DEADLOCK FALSE
