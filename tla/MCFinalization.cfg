CONSTANTS
    owner = owner
    app = app
    importer = importer
    users = users
    audit = audit
    Users <- MCUsers
    AppOwner <- owner
    Importer <- importer
    Restored <- MCRestored
    Later <- MCLater
    Lowest <- MCLowest
    MaxId <- MCMaxId
    MaxSql <- MCMaxSql
    Checks <- MCChecks
SPECIFICATION Spec
INVARIANTS
    TypeOK
    SequencesAhead
    UsersReachAll
    DoneMeansValid
