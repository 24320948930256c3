SPECIFICATION QueriesSpec
CONSTANTS
    o1 = o1
    o2 = o2
    Owners = {o1, o2}
    Analyzers = {1, 2}
    StateFacts <- MCStateFacts
    ShardFacts <- MCShardFacts
    BindingFacts <- MCBindingFacts
    BaseOverrides <- MCBaseOverrides
    Payloads <- MCPayloads
    BulkThreshold = 2
    Owner <- MCOwner
    Contracts = {7}
    Queries <- MCQueries
INVARIANT WinnersAreCurrent
INVARIANT ResolvedIsDirect
INVARIANT TraversalIsExact
INVARIANT ClosureIsExact
