SPECIFICATION Spec
CONSTANTS
    FunctionElems <- MCFunctions
    RuleElems <- MCRules
    HostElems <- MCHosts
    NodeElems <- MCNodes
    SchemaElems <- MCSchemas
    TableElems <- MCTables
    ChildElems <- MCChildren
    SettingElems <- MCSettings
    UserElems <- MCUsers
    MemberElems <- MCMembers
    GroupElems <- MCGroups
    WhiteElems <- MCWhite
    Upper <- MCUpper
    Cpus = 4
    None = None
    MaxElems = 9
INVARIANTS UsersAreServed TablesHoldTogether SettingsFit
CHECK_DEADLOCK FALSE
