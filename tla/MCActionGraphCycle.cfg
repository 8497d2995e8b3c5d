SPECIFICATION Spec
CONSTANTS
    Workspaces <- MCPaths
    AskedOf <- MCAskedOf
    Tree <- MCTree
    Ignored <- MCIgnored
CHECK_DEADLOCK FALSE
INVARIANTS
    AcceptedIsAcyclic
