SPECIFICATION QueriesSpec
CONSTANTS
    o1 = o1
    o2 = o2
    Owners = {o1, o2}
    Analyzers = {1, 2}
    StateFacts <- MCStateFactsCut
    ShardFacts <- MCNothing
    BindingFacts <- MCNothing
    BaseOverrides <- MCNothing
    Payloads = {}
    BulkThreshold = 2
    Owner <- MCOwner
    Contracts = {7}
    Queries <- MCQueriesCut
INVARIANT PathsAreReal
