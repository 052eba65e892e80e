CONSTANTS
    users = users
    logs = logs
    name = name
    phone = phone
    Tables <- MCTables
    Rules <- MCRules
    Files <- MCFiles
    MaxEdits <- MCMaxEdits
SPECIFICATION Spec
INVARIANTS
    TypeOK
    NoRuleLost
    ReadsAsEdited
    HeaderSafe
