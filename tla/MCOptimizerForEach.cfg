SPECIFICATION ToolchainSpec
CONSTANTS
    Prices <- MCPrices
    LoopUse = 5000
    Fragments <- MCFragments
    MaxFragments = 1
    Procedures <- ForEachReplaced
    Order <- MCOrder
    Stores <- MCStores
    Locals = {"a", "b", "!control:counter"}
    DontRemove = {"sp"}
    Ignored = {"sp"}
    MaxIterations = 5
    AllowHacked <- NeverHacked
INVARIANT SameWhenExported
