\* Every configuration over two or three values per token, with up to two event filters.
SPECIFICATION SubscriptionSpec
CONSTANTS
  Scopes = {"s", "r"}
  Overrides = {"x", "command", "query"}
  Types = {"t", "u"}
  AggregateIds = {"a", "b"}
  MessageNames = {"n", "m", "o"}
  TypeLists <- MCTypeLists
  IdLists <- MCIdLists
  NameLists <- MCNameLists
CHECK_DEADLOCK FALSE
INVARIANT HarnessAgrees
