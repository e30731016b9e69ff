SPECIFICATION Spec
CONSTANTS
  n1 = n1
  n2 = n2
  x1 = x1
  x2 = x2
  a1 = a1
  a2 = a2
  a3 = a3
  a4 = a4
  s1 = s1
  Node = {n1, n2}
  Name = {x1, x2}
  UnivAddr <- MCUnivAddr
  PrefixOf <- MCPrefixOf
  Address = {a1, a2, a3, a4}
  SecAddr <- MCSecAddr
  Server = {s1}
  Hash <- MCHash
  Addr0 <- MCAddr0
  Serves0 <- MCServes0
  Ask <- MCAsk
  Starter = {n2}
  Default = default
  Unsolved = unsolved
  MaxQueries = 2
  MaxChanges = 1
INVARIANT TypeInvariant
INVARIANT SolvedIsOwners
INVARIANT RepliedOnce
INVARIANT AnswersFindQueries
PROPERTY EventuallyRegistered
CHECK_DEADLOCK FALSE
