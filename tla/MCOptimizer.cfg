SPECIFICATION ToolchainSpec
CONSTANTS
    Prices <- MCPrices
    LoopUse = 5000
    Fragments <- MCFragments
    MaxFragments = 3
    Procedures <- MCProcedures
    Order <- MCOrder
    Stores <- MCStores
    Locals = {"a", "b", "!control:counter"}
    DontRemove = {"sp"}
    Ignored = {"sp"}
    MaxIterations = 5
    AllowHacked <- MCAllowHacked
INVARIANTS SameOutput NothingAfterStop SameWhenExported Linked
PROPERTY Settles
